---- MODULE Spec2Model ----
(***************************************************************************)
(* Portfolio tracker: the App component's state (assets, transactions,     *)
(* price cache effects) and the valuation pipeline                         *)
(*   assets + transactions -> derivedAssets -> normalizeAssets.            *)
(*                                                                         *)
(* Units.  THB and USD amounts are integers in hundredths (satang, cents), *)
(* so a value "rounded to 2 decimals" is an integer.  Quantities (units of *)
(* a fund, qty of a stock) are integers in tenths.  Prices are THB         *)
(* hundredths per whole unit, the USD->THB rate is in hundredths of THB    *)
(* per USD.  toFixed(2) is modelled as rounding half away from zero on the *)
(* exact product (the binary floating point representation is not          *)
(* modelled).                                                              *)
(* A nullable JavaScript value is None (null/undefined) or Some(v).        *)
(***************************************************************************)
EXTENDS Integers, Sequences, FiniteSets, TLC

VARIABLES
    supabase,       \* TRUE iff the Supabase client is configured
    loadStatus,     \* "loading" | "ready" | "error"
    assets,         \* useState(DEFAULT_ASSETS)
    transactions,   \* useState([])
    usdThbRate,     \* useState(null): USDTHB=X taken from the price cache
    saveStatus,     \* useState(null)
    priceCache,     \* rows of table price_cache, keyed by symbol
    cacheFetch,     \* the applyCache effect: None, or Some(cache) while its result is awaited
    pending,        \* cache-on-save lookups in flight
    dbPortfolio,    \* the stored portfolio document of this user: None or Some(assets)
    dbTransactions, \* rows of table transactions of this user
    ops,            \* number of user operations performed so far
    settings,       \* useState(DEFAULT_SETTINGS)
    now,            \* Date.now(), in hours
    saveTimer,      \* the setTimeout of the debounced save effect: None or Some(timer)
    saveCalls,      \* the calls of savePortfolio made so far, oldest first
    upserts,        \* the upserts of savePortfolio: in flight, applied or failed
    batch,          \* a call of a batch lookup: None, or its inputs and its outcome
    job             \* the scheduled refresh process: None, or its position and results

vars == <<supabase, loadStatus, assets, transactions, usdThbRate, saveStatus,
          priceCache, cacheFetch, pending, dbPortfolio, dbTransactions, ops,
          settings, now, saveTimer, saveCalls, upserts, batch, job>>

\* the settings, the clock and the debounced save
sideVars == <<settings, now, saveTimer, saveCalls, upserts, batch, job>>

\* the batch lookups, the scheduled job and the upserts in flight
procVars == <<upserts, batch, job>>

\* ------------------------------------------------------------------------
\* Bounds
\* ------------------------------------------------------------------------
MaxAssets == 2
MaxSubs == 2
MaxTxs == 2
MaxOps == 2
MaxPending == 1

\* ------------------------------------------------------------------------
\* JavaScript values
\* ------------------------------------------------------------------------
None == <<>>
Some(v) == <<v>>

\* Number(x || 0)
NumOr0(o) == IF o = None THEN 0 ELSE o[1]

\* x > 0 for a possibly missing number (undefined > 0 is false)
GtZero(o) == o # None /\ o[1] > 0

\* n / d rounded to the nearest integer, half away from zero (toFixed)
RoundDiv(n, d) ==
    IF n >= 0 THEN (2 * n + d) \div (2 * d)
    ELSE -((2 * (-n) + d) \div (2 * d))

\* +(usd * rate).toFixed(2)
ToThb(usd, rate) == RoundDiv(usd * rate, 100)

\* +(thb / rate).toFixed(2)
ToUsd(thb, rate) == RoundDiv(thb * 100, rate)

\* +(qty * price).toFixed(2)
QtyTimesPrice(qty, price) == RoundDiv(qty * price, 10)

RECURSIVE SumInts(_)
SumInts(s) == IF s = <<>> THEN 0 ELSE Head(s) + SumInts(Tail(s))

\* Array.prototype.map
Map(s, F(_)) == [i \in 1..Len(s) |-> F(s[i])]

\* ------------------------------------------------------------------------
\* Program constants
\* ------------------------------------------------------------------------
STOCK_GROUP_TYPES == {"thai_stocks", "us_stocks"}

\* const rate = usdThbRate || 35 (in hundredths of THB)
FormFallbackRate == 3500

\* { dca: 1000, specCap: 10 }: THB hundredths per month, percent
DEFAULT_SETTINGS == [dca |-> 100000, specCap |-> 10]

\* ------------------------------------------------------------------------
\* Valuation: derivedAssets, groupTotals, normalizeAssets
\* ------------------------------------------------------------------------

\* variant: the ledger filter of an asset without the test of the kind
AssetTxsAnyKind(asset, txs) ==
    SelectSeq(txs, LAMBDA t : t.asset_id = asset.id /\ t.sub_asset_id = None)

\* transactions.filter(t => t.asset_id === asset.id && !t.sub_asset_id && t.type === 'buy')
AssetTxs(asset, txs) ==
    SelectSeq(txs, LAMBDA t : t.asset_id = asset.id /\ t.sub_asset_id = None
                              /\ t.type = "buy")

\* variant: the ledger filter of a sub-asset without the test of the kind
SubTxsAnyKind(asset, sub, txs) ==
    SelectSeq(txs, LAMBDA t : t.asset_id = asset.id /\ t.sub_asset_id = Some(sub.id))

\* transactions.filter(t => t.asset_id === asset.id && t.sub_asset_id === sub.id && t.type === 'buy')
SubTxs(asset, sub, txs) ==
    SelectSeq(txs, LAMBDA t : t.asset_id = asset.id /\ t.sub_asset_id = Some(sub.id)
                              /\ t.type = "buy")

\* variant: the sub-asset branch that never overwrites qty
DeriveSubKeepsQty(asset, sub, txs) ==
    LET subTxs == SubTxs(asset, sub, txs)
        invUsd == IF sub.currency = "USD"
                  THEN Some(SumInts(Map(subTxs, LAMBDA t : NumOr0(t.amount_usd))))
                  ELSE None
    IN  IF Len(subTxs) = 0 THEN sub
        ELSE [sub EXCEPT !.invested = SumInts(Map(subTxs, LAMBDA t : t.amount_thb)),
                         !.investedUSD = invUsd]

\* variant: the sub-asset branch without the fallback to the stored fields
DeriveSubNoFallback(asset, sub, txs) ==
    LET subTxs == SubTxs(asset, sub, txs)
    IN  [sub EXCEPT !.invested = SumInts(Map(subTxs, LAMBDA t : t.amount_thb)),
                    !.investedUSD = IF sub.currency = "USD"
                                    THEN Some(SumInts(Map(subTxs, LAMBDA t : NumOr0(t.amount_usd))))
                                    ELSE None,
                    !.qty = Some(SumInts(Map(subTxs, LAMBDA t : NumOr0(t.qty))))]

\* the sub-asset branch of derivedAssets
DeriveSub(asset, sub, txs) ==
    LET subTxs == SubTxs(asset, sub, txs)
        invThb == SumInts(Map(subTxs, LAMBDA t : t.amount_thb))
        invUsd == IF sub.currency = "USD"
                  THEN Some(SumInts(Map(subTxs, LAMBDA t : NumOr0(t.amount_usd))))
                  ELSE None
        qty    == SumInts(Map(subTxs, LAMBDA t : NumOr0(t.qty)))
    IN  IF Len(subTxs) = 0 THEN sub
        ELSE [sub EXCEPT !.invested = invThb, !.investedUSD = invUsd, !.qty = Some(qty)]

\* variant: the top-level branch that never overwrites investedUSD
DeriveTopKeepsUsd(asset, txs) ==
    LET assetTxs == AssetTxs(asset, txs)
        d1 == [asset EXCEPT !.invested = SumInts(Map(assetTxs, LAMBDA t : t.amount_thb))]
        d3 == IF asset.finnomenaCode # ""
              THEN [d1 EXCEPT !.units = Some(SumInts(Map(assetTxs, LAMBDA t : NumOr0(t.units))))]
              ELSE d1
    IN  IF Len(assetTxs) > 0 THEN d3 ELSE asset

\* variant: the top-level branch without the fallback to the stored fields
DeriveTopNoFallback(asset, txs) ==
    LET assetTxs == AssetTxs(asset, txs)
        d1 == [asset EXCEPT !.invested = SumInts(Map(assetTxs, LAMBDA t : t.amount_thb))]
        d2 == IF asset.currency = "USD"
              THEN [d1 EXCEPT !.investedUSD =
                                 Some(SumInts(Map(assetTxs, LAMBDA t : NumOr0(t.amount_usd))))]
              ELSE d1
    IN  IF asset.finnomenaCode # ""
        THEN [d2 EXCEPT !.units = Some(SumInts(Map(assetTxs, LAMBDA t : NumOr0(t.units))))]
        ELSE d2

\* the top-level branch of derivedAssets, without the sub-assets
DeriveTop(asset, txs) ==
    LET assetTxs == AssetTxs(asset, txs)
        invThb == SumInts(Map(assetTxs, LAMBDA t : t.amount_thb))
        isUSD  == asset.currency = "USD"
        invUsd == SumInts(Map(assetTxs, LAMBDA t : NumOr0(t.amount_usd)))
        units  == SumInts(Map(assetTxs, LAMBDA t : NumOr0(t.units)))
        d1 == [asset EXCEPT !.invested = invThb]
        d2 == IF isUSD THEN [d1 EXCEPT !.investedUSD = Some(invUsd)] ELSE d1
        d3 == IF asset.finnomenaCode # "" THEN [d2 EXCEPT !.units = Some(units)] ELSE d2
    IN  IF Len(assetTxs) > 0 THEN d3 ELSE asset

DeriveAsset(asset, txs) ==
    LET derived == DeriveTop(asset, txs)
    IN  [derived EXCEPT !.subAssets = Map(derived.subAssets,
                                          LAMBDA sub : DeriveSub(asset, sub, txs))]

derivedAssets(as, txs) == Map(as, LAMBDA a : DeriveAsset(a, txs))

groupTotals(asset) ==
    [invested     |-> SumInts(Map(asset.subAssets, LAMBDA x : x.invested)),
     currentValue |-> SumInts(Map(asset.subAssets, LAMBDA x : x.currentValue))]

normalizeAsset(a) ==
    IF a.type \notin STOCK_GROUP_TYPES THEN a
    ELSE [a EXCEPT !.invested = groupTotals(a).invested,
                   !.currentValue = groupTotals(a).currentValue]

normalizeAssets(as) == Map(as, normalizeAsset)

normalizedAssets == normalizeAssets(derivedAssets(assets, transactions))

\* ------------------------------------------------------------------------
\* Input domains of the environment (user input, stored data, providers)
\* ------------------------------------------------------------------------
CategoryTypes == {"equity", "us_stocks"}
Currencies == {"THB", "USD"}
RateSymbol == "USDTHB=X"

ManualInvested == 700       \* typed into "Initial Invested"
ManualValue == 900          \* typed into "Current Value"
ManualUnits == 20           \* typed into "Units Held": 2.0
ManualQty == 100            \* typed into "Shares": 10
\* what the user fills into the transaction form: kind, amount, units or
\* shares (1.5, 3.0, -1.5 or blank), date; the number inputs have no minimum
TxForm(k, a, q, d) == [type |-> k, amount |-> a, quantity |-> q, date |-> d]
TxFormInputs ==
    {TxForm("buy", 100, 15, 1), TxForm("buy", 250, 30, 2), TxForm("buy", 0, 15, 1),
     TxForm("sell", 100, 15, 2), TxForm("dividend", 0, 0, 1), TxForm("fee", 100, 0, 2),
     TxForm("buy", 100, -15, 2)}

\* rows of price_cache as the scheduled job left them
CacheRow(p) == [price |-> p, price_date |-> 1, updated_at |-> 1]
FullCache == [s \in {"F1", "S1", RateSymbol} |->
                 IF s = "F1" THEN CacheRow(1025)
                 ELSE IF s = "S1" THEN CacheRow(5000) ELSE CacheRow(3625)]
EmptyCache == [s \in {} |-> CacheRow(0)]

\* ------------------------------------------------------------------------
\* Records
\* ------------------------------------------------------------------------
IdsOf(s) == {s[i].id : i \in 1..Len(s)}

AllSubs(as) == UNION {{<<as[i].id, as[i].subAssets[j].id>> :
                          j \in 1..Len(as[i].subAssets)} : i \in 1..Len(as)}

SubIdsOf(as) == {p[2] : p \in AllSubs(as)}

\* ids that uid() has handed out and that are still referenced somewhere
UsedAssetIds == IdsOf(assets) \cup {transactions[i].asset_id : i \in 1..Len(transactions)}
UsedSubIds == SubIdsOf(assets)
                 \cup {transactions[i].sub_asset_id[1] :
                          i \in {k \in 1..Len(transactions) : transactions[k].sub_asset_id # None}}

\* ------------------------------------------------------------------------
\* Price cache application (the effect on loadStatus)
\* ------------------------------------------------------------------------

\* the symbols the effect collects from the assets of the render it runs in
CacheSymbols(as) ==
    {as[i].finnomenaCode : i \in {k \in 1..Len(as) : as[k].finnomenaCode # ""}}
    \cup UNION {{as[i].subAssets[j].yahooSymbol :
                    j \in {k \in 1..Len(as[i].subAssets) : as[i].subAssets[k].yahooSymbol # ""}} :
                i \in 1..Len(as)}
    \cup {RateSymbol}

\* getPriceCache(symbols): the rows of price_cache whose symbol is asked for
getPriceCache(symbols) ==
    IF ~supabase THEN EmptyCache
    ELSE [s \in (DOMAIN priceCache) \cap symbols |-> priceCache[s]]

\* variant: a sub-asset without a cached row is valued at zero
applyCacheSubZeroesUnpriced(sub, cache) ==
    IF sub.yahooSymbol = "" \/ sub.yahooSymbol \notin DOMAIN cache
    THEN [sub EXCEPT !.currentValue = 0]
    ELSE LET row == cache[sub.yahooSymbol]
             newVal == IF GtZero(sub.qty) THEN QtyTimesPrice(sub.qty[1], row.price)
                       ELSE sub.currentValue
         IN  [sub EXCEPT !.currentValue = newVal,
                         !.priceDate = Some(row.price_date),
                         !.priceUpdatedAt = Some(row.updated_at)]

applyCacheSub(sub, cache) ==
    IF sub.yahooSymbol = "" \/ sub.yahooSymbol \notin DOMAIN cache THEN sub
    ELSE LET row == cache[sub.yahooSymbol]
             newVal == IF GtZero(sub.qty) THEN QtyTimesPrice(sub.qty[1], row.price)
                       ELSE sub.currentValue
         IN  [sub EXCEPT !.currentValue = newVal,
                         !.priceDate = Some(row.price_date),
                         !.priceUpdatedAt = Some(row.updated_at)]

\* variant: the cached value is added to the current value
applyCacheAssetAdds(a, cache) ==
    IF a.finnomenaCode # "" /\ a.finnomenaCode \in DOMAIN cache
    THEN LET row == cache[a.finnomenaCode]
             newVal == IF GtZero(a.units)
                       THEN a.currentValue + QtyTimesPrice(a.units[1], row.price)
                       ELSE a.currentValue
         IN  [a EXCEPT !.currentValue = newVal, !.navUpdatedAt = Some(row.updated_at)]
    ELSE IF Len(a.subAssets) > 0
    THEN [a EXCEPT !.subAssets = Map(a.subAssets, LAMBDA sub : applyCacheSub(sub, cache))]
    ELSE a

applyCacheAsset(a, cache) ==
    IF a.finnomenaCode # "" /\ a.finnomenaCode \in DOMAIN cache
    THEN LET row == cache[a.finnomenaCode]
             newVal == IF GtZero(a.units) THEN QtyTimesPrice(a.units[1], row.price)
                       ELSE a.currentValue
         IN  [a EXCEPT !.currentValue = newVal, !.navUpdatedAt = Some(row.updated_at)]
    ELSE IF Len(a.subAssets) > 0
    THEN [a EXCEPT !.subAssets = Map(a.subAssets, LAMBDA sub : applyCacheSub(sub, cache))]
    ELSE a

applyCache(as, cache) == Map(as, LAMBDA a : applyCacheAsset(a, cache))

\* ------------------------------------------------------------------------
\* Asset form, sub-asset form, update-value modal
\* ------------------------------------------------------------------------

\* const rate = usdThbRate || 35
FormRate == IF usdThbRate = None \/ usdThbRate[1] = 0 THEN FormFallbackRate ELSE usdThbRate[1]

\* the smallest id that is not referenced anywhere stands for a fresh uid()
FreshAssetId == CHOOSE i \in 1..MaxAssets :
                    i \notin UsedAssetIds /\ \A j \in 1..(i - 1) : j \in UsedAssetIds
FreshSubId == CHOOSE i \in 1..MaxSubs :
                    i \notin UsedSubIds /\ \A j \in 1..(i - 1) : j \in UsedSubIds

\* useState(() => ...) of AssetForm: text fields are None when blank
AssetFormOpen(initial, rate) ==
    IF initial = None
    THEN [id |-> None, type |-> "equity", currency |-> "THB", invested |-> None,
          investedUSD |-> None, currentValue |-> None, currentValueUSD |-> None,
          finnomenaCode |-> "", units |-> None, isSpeculative |-> FALSE,
          navUpdatedAt |-> None, subAssets |-> <<>>]
    ELSE LET a == initial[1]
         IN  [id |-> Some(a.id), type |-> a.type, currency |-> a.currency,
              invested |-> Some(a.invested), investedUSD |-> a.investedUSD,
              currentValue |-> Some(a.currentValue),
              currentValueUSD |-> IF a.currency = "USD" /\ a.currentValue # 0
                                  THEN Some(ToUsd(a.currentValue, rate)) ELSE None,
              finnomenaCode |-> a.finnomenaCode, units |-> a.units,
              isSpeculative |-> a.isSpeculative,
              navUpdatedAt |-> a.navUpdatedAt, subAssets |-> a.subAssets]

\* what the user changes in the form before pressing Save: nothing, the
\* category type, the currency, the cost and value fields, or the fund fields
AssetFormInputs == {"none", "equity", "us_stocks", "THB", "USD", "money", "fund", "units"}

AssetFormEdit(form, in) ==
    CASE in = "none"  -> form
      [] in \in CategoryTypes -> [form EXCEPT !.type = in]
      [] in \in Currencies -> [form EXCEPT !.currency = in]
      [] in = "money" ->
            IF form.currency = "USD"
            THEN [form EXCEPT !.investedUSD = Some(ManualInvested),
                              !.currentValueUSD = Some(ManualValue)]
            ELSE [form EXCEPT !.invested = Some(ManualInvested),
                              !.currentValue = Some(ManualValue)]
      [] in = "fund"  -> [form EXCEPT !.finnomenaCode = "F1", !.units = Some(ManualUnits)]
      [] in = "units" -> [form EXCEPT !.finnomenaCode = "", !.units = Some(ManualUnits)]

\* the fields the form renders: cost and value are hidden for a stock group,
\* the fund code and the units for a stock group and for a USD asset
AssetFormShows(form, in) ==
    CASE in = "money" -> form.type \notin STOCK_GROUP_TYPES
      [] in \in {"fund", "units"} ->
            form.type \notin STOCK_GROUP_TYPES /\ form.currency # "USD"
      [] OTHER -> TRUE

\* AssetForm.handleSave (hasTransactions is never passed, so it is undefined)
AssetFormSave(form, rate, freshId) ==
    LET isUSD == form.currency = "USD"
        investedFinal == IF isUSD THEN ToThb(NumOr0(form.investedUSD), rate)
                         ELSE NumOr0(form.invested)
        investedUSD == IF isUSD THEN Some(NumOr0(form.investedUSD)) ELSE None
        unitsFinal == NumOr0(form.units)
        currentValueFinal == IF isUSD THEN ToThb(NumOr0(form.currentValueUSD), rate)
                             ELSE NumOr0(form.currentValue)
    IN  [id |-> IF form.id = None THEN freshId ELSE form.id[1],
         type |-> form.type, currency |-> form.currency,
         invested |-> investedFinal, investedUSD |-> investedUSD,
         currentValue |-> currentValueFinal, units |-> Some(unitsFinal),
         finnomenaCode |-> form.finnomenaCode, isSpeculative |-> form.isSpeculative,
         navUpdatedAt |-> form.navUpdatedAt, subAssets |-> form.subAssets]

\* useState(() => ...) of StockSubForm
StockSubFormOpen(initial, rate) ==
    IF initial = None
    THEN [id |-> None, currency |-> "THB", invested |-> None, investedUSD |-> None,
          currentValue |-> None, currentValueUSD |-> None, yahooSymbol |-> "",
          qty |-> None, priceDate |-> None, priceUpdatedAt |-> None]
    ELSE LET x == initial[1]
         IN  [id |-> Some(x.id), currency |-> x.currency,
              invested |-> Some(x.invested), investedUSD |-> x.investedUSD,
              currentValue |-> Some(x.currentValue),
              currentValueUSD |-> IF x.currency = "USD" /\ x.currentValue # 0
                                  THEN Some(ToUsd(x.currentValue, rate)) ELSE None,
              yahooSymbol |-> x.yahooSymbol, qty |-> x.qty,
              priceDate |-> x.priceDate, priceUpdatedAt |-> x.priceUpdatedAt]

StockSubFormInputs == {"none", "THB", "USD", "money", "symbol", "qty"}

StockSubFormEdit(form, in) ==
    CASE in = "none"  -> form
      [] in \in Currencies -> [form EXCEPT !.currency = in]
      [] in = "money" ->
            IF form.currency = "USD"
            THEN [form EXCEPT !.investedUSD = Some(ManualInvested),
                              !.currentValueUSD = Some(ManualValue)]
            ELSE [form EXCEPT !.invested = Some(ManualInvested),
                              !.currentValue = Some(ManualValue)]
      [] in = "symbol" -> [form EXCEPT !.yahooSymbol = "S1", !.qty = Some(ManualQty)]
      [] in = "qty"    -> [form EXCEPT !.yahooSymbol = "", !.qty = Some(ManualQty)]

\* StockSubForm.handleSave
StockSubFormSave(form, rate, freshId) ==
    LET isUSD == form.currency = "USD"
        investedFinal == IF isUSD THEN ToThb(NumOr0(form.investedUSD), rate)
                         ELSE NumOr0(form.invested)
        investedUSD == IF isUSD THEN Some(NumOr0(form.investedUSD)) ELSE None
        qtyFinal == NumOr0(form.qty)
        currentValueFinal == IF isUSD THEN ToThb(NumOr0(form.currentValueUSD), rate)
                             ELSE NumOr0(form.currentValue)
    IN  [id |-> IF form.id = None THEN freshId ELSE form.id[1],
         currency |-> form.currency, invested |-> investedFinal,
         investedUSD |-> investedUSD, currentValue |-> currentValueFinal,
         qty |-> Some(qtyFinal), yahooSymbol |-> form.yahooSymbol,
         priceDate |-> form.priceDate, priceUpdatedAt |-> form.priceUpdatedAt]

\* the value UpdateValueModal hands to onSave
UpdateValueModalSave(target, typed, rate) ==
    LET isUSD == target.currency = "USD"
        initVal == IF isUSD /\ target.currentValue # 0
                   THEN ToUsd(target.currentValue, rate) ELSE target.currentValue
        val == IF typed = None THEN initVal ELSE typed[1]
    IN  IF isUSD THEN ToThb(val, rate) ELSE val

\* ------------------------------------------------------------------------
\* Asset handlers of App
\* ------------------------------------------------------------------------
UiShown == loadStatus # "loading"

\* prev.find(a => a.id === x.id) ? prev.map(a => a.id === x.id ? x : a) : [...prev, x]
Upsert(prev, x) ==
    IF x.id \in IdsOf(prev) THEN Map(prev, LAMBDA a : IF a.id = x.id THEN x ELSE a)
    ELSE Append(prev, x)

Filter(s, Keep(_)) == SelectSeq(s, Keep)

\* values the providers return
FetchedNav == 1100          \* fetchCurrentNAV: 11.00 THB
FetchedThbPrice == 5100     \* fetchStockPrice of a THB stock: 51.00 THB
FetchedUsdPrice == 200      \* fetchStockPrice of a USD stock: 2.00 USD
YahooFallbackRate == 3300   \* return _usdThbRate ?? 33
YahooLiveRate == 3600
Now == 2                    \* new Date() of a cache-on-save write

\* saveAsset up to its first await
SaveAsset ==
    /\ UiShown
    /\ ops < MaxOps
    /\ \E initial \in {None} \cup {Some(assets[i]) : i \in 1..Len(assets)}
                      \cup {Some(normalizedAssets[i]) : i \in 1..Len(assets)},
          in \in AssetFormInputs :
          /\ initial = None => (1..MaxAssets) \ UsedAssetIds # {}
          /\ LET opened == AssetFormOpen(initial, FormRate)
                 form == AssetFormEdit(opened, in)
                 asset == AssetFormSave(form, FormRate,
                                        IF initial = None THEN FreshAssetId ELSE 0)
             IN  /\ AssetFormShows(opened, in)
                 /\ assets' = Upsert(assets, asset)
                 /\ IF asset.finnomenaCode # "" /\ supabase
                    THEN /\ Cardinality(pending) < MaxPending
                         /\ pending' = pending \cup
                               {[kind |-> "fund", assetId |-> asset.id, subId |-> 0,
                                 symbol |-> asset.finnomenaCode, qty |-> asset.units,
                                 currency |-> asset.currency]}
                    ELSE pending' = pending
    /\ ops' = ops + 1
    /\ UNCHANGED <<sideVars, supabase, loadStatus, transactions, usdThbRate, saveStatus,
                   priceCache, cacheFetch, dbPortfolio, dbTransactions>>

\* the rest of saveAsset: getPriceCache, fetchCurrentNAV, upsert, setAssets
SaveAssetLookup ==
    \E l \in pending :
        /\ l.kind = "fund"
        /\ pending' = pending \ {l}
        /\ \/ \* the cached row is fresh, the NAV is not found, or the fetch throws
              UNCHANGED <<assets, priceCache>>
           \/ \* no row or a stale row, and the NAV is fetched
              /\ GtZero(l.qty)
              /\ \E upsertOk \in BOOLEAN :
                    priceCache' = IF upsertOk
                                  THEN [s \in DOMAIN priceCache \cup {l.symbol} |->
                                          IF s = l.symbol
                                          THEN [price |-> FetchedNav, price_date |-> Now,
                                                updated_at |-> Now]
                                          ELSE priceCache[s]]
                                  ELSE priceCache
              /\ assets' = Map(assets, LAMBDA a :
                                 IF a.id = l.assetId
                                 THEN [a EXCEPT !.currentValue = QtyTimesPrice(l.qty[1], FetchedNav),
                                                !.navUpdatedAt = Some(Now)]
                                 ELSE a)
        /\ UNCHANGED <<sideVars, supabase, loadStatus, transactions, usdThbRate, saveStatus,
                       cacheFetch, dbPortfolio, dbTransactions, ops>>

deleteAsset(id) == Filter(assets, LAMBDA a : a.id # id)

DeleteAsset ==
    /\ UiShown
    /\ ops < MaxOps
    /\ \E id \in IdsOf(assets) : assets' = deleteAsset(id)
    /\ ops' = ops + 1
    /\ UNCHANGED <<sideVars, supabase, loadStatus, transactions, usdThbRate, saveStatus,
                   priceCache, cacheFetch, pending, dbPortfolio, dbTransactions>>

UpdateValues == {None, Some(1200)}   \* typed into "Current Market Value"

updateValue(id, val) ==
    Map(assets, LAMBDA a : IF a.id = id THEN [a EXCEPT !.currentValue = val] ELSE a)

\* the update modal is opened from an asset card (normalized asset, not a
\* stock group) or from the dashboard (stored asset)
UpdateValue ==
    /\ UiShown
    /\ ops < MaxOps
    /\ \E target \in {normalizedAssets[i] :
                         i \in {k \in 1..Len(assets) : assets[k].type \notin STOCK_GROUP_TYPES}}
                     \cup {assets[i] : i \in 1..Len(assets)},
          typed \in UpdateValues :
          assets' = updateValue(target.id, UpdateValueModalSave(target, typed, FormRate))
    /\ ops' = ops + 1
    /\ UNCHANGED <<sideVars, supabase, loadStatus, transactions, usdThbRate, saveStatus,
                   priceCache, cacheFetch, pending, dbPortfolio, dbTransactions>>

\* ------------------------------------------------------------------------
\* Sub-asset handlers of App (reached from a StockGroupCard)
\* ------------------------------------------------------------------------
GroupCards == {normalizedAssets[i] :
                  i \in {k \in 1..Len(assets) : assets[k].type \in STOCK_GROUP_TYPES}}

SubsOf(a) == {a.subAssets[j] : j \in 1..Len(a.subAssets)}

saveSubAssetList(activeGroupId, sub) ==
    Map(assets, LAMBDA a :
        IF a.id # activeGroupId THEN a
        ELSE [a EXCEPT !.subAssets = Upsert(a.subAssets, sub)])

\* saveSubAsset up to its first await
SaveSubAsset ==
    /\ UiShown
    /\ ops < MaxOps
    /\ \E g \in GroupCards :
       \E initial \in {None} \cup {Some(x) : x \in SubsOf(g)},
          in \in StockSubFormInputs :
          /\ initial = None => (1..MaxSubs) \ UsedSubIds # {}
          /\ LET form == StockSubFormEdit(StockSubFormOpen(initial, FormRate), in)
                 sub == StockSubFormSave(form, FormRate,
                                         IF initial = None THEN FreshSubId ELSE 0)
             IN  /\ assets' = saveSubAssetList(g.id, sub)
                 /\ IF sub.yahooSymbol # "" /\ GtZero(sub.qty) /\ supabase
                    THEN /\ Cardinality(pending) < MaxPending
                         /\ pending' = pending \cup
                               {[kind |-> "stock", assetId |-> g.id, subId |-> sub.id,
                                 symbol |-> sub.yahooSymbol, qty |-> sub.qty,
                                 currency |-> sub.currency]}
                    ELSE pending' = pending
    /\ ops' = ops + 1
    /\ UNCHANGED <<sideVars, supabase, loadStatus, transactions, usdThbRate, saveStatus,
                   priceCache, cacheFetch, dbPortfolio, dbTransactions>>

\* the rest of saveSubAsset: getPriceCache, fetchStockPrice, fetchUSDTHBRate,
\* upsert, setAssets
SaveSubAssetLookup ==
    \E l \in pending :
        /\ l.kind = "stock"
        /\ pending' = pending \ {l}
        /\ \/ UNCHANGED <<assets, priceCache>>
           \/ \E fx \in {YahooFallbackRate, YahooLiveRate}, upsertOk \in BOOLEAN :
                 LET price == IF l.currency = "USD" THEN FetchedUsdPrice ELSE FetchedThbPrice
                     thbPrice == IF l.currency = "USD" THEN ToThb(price, fx) ELSE price
                     newVal == QtyTimesPrice(l.qty[1], thbPrice)
                 IN  /\ l.currency # "USD" => fx = YahooLiveRate
                     /\ priceCache' = IF upsertOk
                                      THEN [s \in DOMAIN priceCache \cup {l.symbol} |->
                                              IF s = l.symbol
                                              THEN [price |-> thbPrice, price_date |-> Now,
                                                    updated_at |-> Now]
                                              ELSE priceCache[s]]
                                      ELSE priceCache
                     /\ assets' = Map(assets, LAMBDA a :
                                        IF a.id # l.assetId THEN a
                                        ELSE [a EXCEPT !.subAssets = Map(a.subAssets, LAMBDA x :
                                                IF x.id = l.subId
                                                THEN [x EXCEPT !.currentValue = newVal,
                                                               !.priceDate = Some(Now),
                                                               !.priceUpdatedAt = Some(Now)]
                                                ELSE x)])
        /\ UNCHANGED <<sideVars, supabase, loadStatus, transactions, usdThbRate, saveStatus,
                       cacheFetch, dbPortfolio, dbTransactions, ops>>

deleteSubAsset(groupId, subId) ==
    Map(assets, LAMBDA a :
        IF a.id # groupId THEN a
        ELSE [a EXCEPT !.subAssets = Filter(a.subAssets, LAMBDA x : x.id # subId)])

DeleteSubAsset ==
    /\ UiShown
    /\ ops < MaxOps
    /\ \E g \in GroupCards : \E x \in SubsOf(g) : assets' = deleteSubAsset(g.id, x.id)
    /\ ops' = ops + 1
    /\ UNCHANGED <<sideVars, supabase, loadStatus, transactions, usdThbRate, saveStatus,
                   priceCache, cacheFetch, pending, dbPortfolio, dbTransactions>>

updateSubValue(groupId, subId, val) ==
    Map(assets, LAMBDA a :
        IF a.id # groupId THEN a
        ELSE [a EXCEPT !.subAssets = Map(a.subAssets, LAMBDA x :
                IF x.id = subId THEN [x EXCEPT !.currentValue = val] ELSE x)])

UpdateSubValue ==
    /\ UiShown
    /\ ops < MaxOps
    /\ \E g \in GroupCards : \E x \in SubsOf(g), typed \in UpdateValues :
          assets' = updateSubValue(g.id, x.id, UpdateValueModalSave(x, typed, FormRate))
    /\ ops' = ops + 1
    /\ UNCHANGED <<sideVars, supabase, loadStatus, transactions, usdThbRate, saveStatus,
                   priceCache, cacheFetch, pending, dbPortfolio, dbTransactions>>

\* ------------------------------------------------------------------------
\* Transactions: AddInvestmentModal, saveTransaction, deleteTx
\* ------------------------------------------------------------------------
\* variant: the THB amount is converted at the literal 35 whatever the live rate
handleSubmitAtLiteralRate(asset, subAsset, form, rate) ==
    LET isSub == subAsset # None
        currency == IF isSub THEN subAsset[1].currency ELSE asset.currency
        isUSD == currency = "USD"
        isFund == ~isSub /\ asset.finnomenaCode # ""
        isStock == IF isSub THEN subAsset[1].yahooSymbol # ""
                   ELSE asset.type \in STOCK_GROUP_TYPES \/ asset.type = "stock"
        amt == form.amount
        signed(x) == IF form.type = "sell" THEN -x ELSE x
    IN  IF amt <= 0 /\ form.type # "dividend" THEN None
        ELSE Some([id |-> 0,
                   asset_id |-> asset.id,
                   sub_asset_id |-> IF isSub THEN Some(subAsset[1].id) ELSE None,
                   type |-> form.type,
                   currency |-> currency,
                   date |-> form.date,
                   amount_usd |-> IF isUSD THEN Some(signed(amt)) ELSE None,
                   amount_thb |-> IF isUSD THEN ToThb(signed(amt), FormFallbackRate)
                                  ELSE signed(amt),
                   units |-> IF isFund THEN Some(signed(form.quantity)) ELSE None,
                   qty |-> IF ~isFund /\ isStock THEN Some(signed(form.quantity)) ELSE None])

\* AddInvestmentModal.handleSubmit: the transaction handed to onSave, or
\* None when the amount is rejected
handleSubmit(asset, subAsset, form, rate) ==
    LET isSub == subAsset # None
        currency == IF isSub THEN subAsset[1].currency ELSE asset.currency
        isUSD == currency = "USD"
        isFund == ~isSub /\ asset.finnomenaCode # ""
        isStock == IF isSub THEN subAsset[1].yahooSymbol # ""
                   ELSE asset.type \in STOCK_GROUP_TYPES \/ asset.type = "stock"
        amt == form.amount
        signed(x) == IF form.type = "sell" THEN -x ELSE x
    IN  IF amt <= 0 /\ form.type # "dividend" THEN None
        ELSE Some([id |-> 0,
                   asset_id |-> asset.id,
                   sub_asset_id |-> IF isSub THEN Some(subAsset[1].id) ELSE None,
                   type |-> form.type,
                   currency |-> currency,
                   date |-> form.date,
                   amount_usd |-> IF isUSD THEN Some(signed(amt)) ELSE None,
                   amount_thb |-> IF isUSD THEN ToThb(signed(amt), rate) ELSE signed(amt),
                   units |-> IF isFund THEN Some(signed(form.quantity)) ELSE None,
                   qty |-> IF ~isFund /\ isStock THEN Some(signed(form.quantity)) ELSE None])

\* s.sort((a, b) => new Date(b.date) - new Date(a.date)): stable, newest date first
RECURSIVE InsertByDate(_, _)
InsertByDate(sorted, t) ==
    IF sorted = <<>> THEN <<t>>
    ELSE IF Head(sorted).date >= t.date THEN <<Head(sorted)>> \o InsertByDate(Tail(sorted), t)
    ELSE <<t>> \o sorted

RECURSIVE SortByDate(_)
SortByDate(s) ==
    IF s = <<>> THEN <<>>
    ELSE InsertByDate(SortByDate(SubSeq(s, 1, Len(s) - 1)), s[Len(s)])

FreshTxId == CHOOSE i \in 1..(2 * MaxTxs + 1) :
                 /\ i \notin IdsOf(transactions) \cup IdsOf(dbTransactions)
                 /\ \A j \in 1..(i - 1) : j \in IdsOf(transactions) \cup IdsOf(dbTransactions)

\* the cards a transaction can be logged from: an AssetCard logs against the
\* asset, a StockGroupCard against one of its sub-assets
TxTargets ==
    {<<normalizedAssets[i], None>> :
        i \in {k \in 1..Len(assets) : assets[k].type \notin STOCK_GROUP_TYPES}}
    \cup UNION {{<<g, Some(x)>> : x \in SubsOf(g)} : g \in GroupCards}

saveTransactionList(prev, createdTx) ==
    IF createdTx = None THEN prev ELSE SortByDate(<<createdTx[1]>> \o prev)

SaveTransaction ==
    /\ UiShown
    /\ ops < MaxOps
    /\ Len(transactions) < MaxTxs
    /\ Len(dbTransactions) < MaxTxs
    /\ \E target \in TxTargets, form \in TxFormInputs, insertOk \in BOOLEAN :
          LET tx == handleSubmit(target[1], target[2], form, FormRate)
              createdTx == IF tx = None THEN None
                           ELSE IF supabase /\ ~insertOk THEN None
                           ELSE Some([tx[1] EXCEPT !.id = FreshTxId])
          IN  /\ tx # None
              /\ ~supabase => insertOk
              /\ transactions' = saveTransactionList(transactions, createdTx)
              /\ dbTransactions' = IF supabase
                                   THEN saveTransactionList(dbTransactions, createdTx)
                                   ELSE dbTransactions
    /\ saveStatus' = Some("saved")
    /\ ops' = ops + 1
    /\ UNCHANGED <<sideVars, supabase, loadStatus, assets, usdThbRate, priceCache, cacheFetch,
                   pending, dbPortfolio>>

deleteTxList(prev, id) == Filter(prev, LAMBDA t : t.id # id)

\* the transactions a card or a history modal lists
ListedTxIds == {transactions[i].id :
                   i \in {k \in 1..Len(transactions) :
                             transactions[k].asset_id \in IdsOf(assets)}}

\* variant: a deletion that also takes the amount out of the asset's value
DeleteTxRevalues ==
    /\ UiShown
    /\ ops < MaxOps
    /\ \E k \in 1..Len(transactions) :
          /\ transactions[k].id \in ListedTxIds
          /\ transactions' = deleteTxList(transactions, transactions[k].id)
          /\ dbTransactions' = deleteTxList(dbTransactions, transactions[k].id)
          /\ assets' = Map(assets, LAMBDA a :
                IF a.id # transactions[k].asset_id THEN a
                ELSE [a EXCEPT !.currentValue = a.currentValue - transactions[k].amount_thb])
    /\ saveStatus' = Some("saved")
    /\ ops' = ops + 1
    /\ UNCHANGED <<sideVars, supabase, loadStatus, usdThbRate, priceCache, cacheFetch,
                   pending, dbPortfolio>>

DeleteTx ==
    /\ UiShown
    /\ ops < MaxOps
    /\ \E id \in ListedTxIds, deleteOk \in BOOLEAN :
          /\ ~supabase => deleteOk
          /\ transactions' = deleteTxList(transactions, id)
          /\ dbTransactions' = IF supabase /\ deleteOk
                               THEN deleteTxList(dbTransactions, id)
                               ELSE dbTransactions
    /\ saveStatus' = Some("saved")
    /\ ops' = ops + 1
    /\ UNCHANGED <<sideVars, supabase, loadStatus, assets, usdThbRate, priceCache, cacheFetch,
                   pending, dbPortfolio>>

\* setTimeout(() => setSaveStatus(null), 2000)
StatusTimeout ==
    /\ saveStatus = Some("saved")
    /\ saveStatus' = None
    /\ UNCHANGED <<sideVars, supabase, loadStatus, assets, transactions, usdThbRate, priceCache,
                   cacheFetch, pending, dbPortfolio, dbTransactions, ops>>

\* ------------------------------------------------------------------------
\* Initial state, load and reload
\* ------------------------------------------------------------------------

\* What earlier sessions left in the stores.  The documents are built with the
\* handlers of this model, except for the legacy one.

\* a fund asset (code F1, 2.0 units, cost 7.00, value 9.00) and one buy of it
StoredFund ==
    LET a0 == AssetFormSave(AssetFormEdit(AssetFormOpen(None, FormFallbackRate), "fund"),
                            FormFallbackRate, 1)
    IN  AssetFormSave(AssetFormEdit(AssetFormOpen(Some(a0), FormFallbackRate), "money"),
                      FormFallbackRate, 0)

StoredFundBuy ==
    [handleSubmit(StoredFund, None, TxForm("buy", 100, 15, 1), FormFallbackRate)[1]
        EXCEPT !.id = 1]

\* a US stock group with one USD stock (symbol S1, 10 shares) and one buy of it
StoredStock ==
    LET s0 == StockSubFormSave(StockSubFormEdit(StockSubFormOpen(None, FormFallbackRate),
                                                "symbol"), FormFallbackRate, 1)
        s1 == StockSubFormSave(StockSubFormEdit(StockSubFormOpen(Some(s0), FormFallbackRate),
                                                "USD"), FormFallbackRate, 0)
    IN  StockSubFormSave(StockSubFormEdit(StockSubFormOpen(Some(s1), FormFallbackRate),
                                          "money"), FormFallbackRate, 0)

StoredGroup ==
    LET g0 == AssetFormSave(AssetFormEdit(AssetFormOpen(None, FormFallbackRate), "us_stocks"),
                            FormFallbackRate, 1)
    IN  [g0 EXCEPT !.subAssets = <<StoredStock>>]

StoredStockBuy ==
    [handleSubmit(StoredGroup, Some(StoredStock), TxForm("buy", 100, 15, 1),
                  FormFallbackRate)[1] EXCEPT !.id = 1]

\* a stock group that was the stored fund before its category was changed in
\* the asset form, which keeps the fund code, and that got the stored stock
StoredFundGroup ==
    LET g == AssetFormSave(AssetFormEdit(AssetFormOpen(Some(StoredFund), FormFallbackRate),
                                         "us_stocks"), FormFallbackRate, 0)
    IN  [g EXCEPT !.subAssets = <<StoredStock>>]

\* a document written by the version of the application that had no ledger,
\* no USD cost, no fund binding and no sub-assets
LegacyAsset ==
    [id |-> 1, type |-> "equity", currency |-> "THB", invested |-> ManualInvested,
     investedUSD |-> None, currentValue |-> ManualValue, units |-> None,
     finnomenaCode |-> "", isSpeculative |-> FALSE, navUpdatedAt |-> None,
     subAssets |-> <<>>]

Stored(sb, cache, doc, txs) ==
    [supabase |-> sb, priceCache |-> cache, dbPortfolio |-> doc, dbTransactions |-> txs]

StoredStates ==
    {Stored(FALSE, EmptyCache, None, <<>>),
     Stored(FALSE, EmptyCache, Some(<<LegacyAsset>>), <<>>),
     Stored(TRUE, EmptyCache, None, <<>>),
     Stored(TRUE, FullCache, None, <<>>),
     Stored(TRUE, FullCache, Some(<<StoredFund>>), <<StoredFundBuy>>),
     Stored(TRUE, FullCache, Some(<<StoredGroup>>), <<StoredStockBuy>>)}

Init ==
    /\ \E st \in StoredStates :
          /\ supabase = st.supabase
          /\ priceCache = st.priceCache
          /\ dbPortfolio = st.dbPortfolio
          /\ dbTransactions = st.dbTransactions
    /\ loadStatus = "loading"
    /\ assets = <<>>
    /\ transactions = <<>>
    /\ usdThbRate = None
    /\ saveStatus = None
    /\ cacheFetch = None
    /\ pending = {}
    /\ ops = 0
    /\ settings = DEFAULT_SETTINGS
    /\ now = 0
    /\ saveTimer = None
    /\ saveCalls = <<>>
    /\ upserts = {}
    /\ batch = None
    /\ job = None

\* load(): loadPortfolio and getTransactions resolve, then the applyCache
\* effect runs in the render that sees loadStatus = "ready" and issues its query
Load ==
    /\ loadStatus = "loading"
    /\ LET loaded == IF dbPortfolio # None THEN dbPortfolio[1] ELSE assets
           cache == getPriceCache(CacheSymbols(loaded))
       IN  /\ assets' = loaded
           \* if (cache.size === 0) return
           /\ cacheFetch' = (IF DOMAIN cache = {} THEN None ELSE Some(cache))
    /\ transactions' = (IF supabase THEN dbTransactions ELSE <<>>)
    /\ loadStatus' = "ready"
    /\ UNCHANGED <<sideVars, supabase, usdThbRate, saveStatus, priceCache, pending,
                   dbPortfolio, dbTransactions, ops>>

\* load(): one of the two reads throws
LoadFails ==
    /\ loadStatus = "loading"
    /\ loadStatus' = "error"
    /\ UNCHANGED <<sideVars, supabase, assets, transactions, usdThbRate, saveStatus, priceCache,
                   cacheFetch, pending, dbPortfolio, dbTransactions, ops>>

\* the awaited getPriceCache of the effect resolves
ApplyCache ==
    /\ cacheFetch # None
    /\ LET cache == cacheFetch[1]
       IN  /\ usdThbRate' = (IF RateSymbol \in DOMAIN cache
                             THEN Some(cache[RateSymbol].price) ELSE usdThbRate)
           /\ assets' = applyCache(assets, cache)
    /\ cacheFetch' = None
    /\ UNCHANGED <<sideVars, supabase, loadStatus, transactions, saveStatus, priceCache, pending,
                   dbPortfolio, dbTransactions, ops>>

\* The page is reloaded after the debounced save has written the assets:
\* every useState is back at its initial value and the stores are kept.
Reload ==
    /\ loadStatus # "loading"
    /\ ops < MaxOps
    /\ ops' = ops + 1
    /\ dbPortfolio' = (IF loadStatus = "ready" THEN Some(assets) ELSE dbPortfolio)
    /\ loadStatus' = "loading"
    /\ assets' = <<>>
    /\ transactions' = <<>>
    /\ usdThbRate' = None
    /\ saveStatus' = None
    /\ cacheFetch' = None
    /\ pending' = {}
    /\ UNCHANGED <<sideVars, supabase, priceCache, dbTransactions>>

\* ------------------------------------------------------------------------
\* Specification
\* ------------------------------------------------------------------------
Next ==
    \/ Load
    \/ LoadFails
    \/ ApplyCache
    \/ Reload
    \/ SaveAsset
    \/ SaveAssetLookup
    \/ DeleteAsset
    \/ UpdateValue
    \/ SaveSubAsset
    \/ SaveSubAssetLookup
    \/ DeleteSubAsset
    \/ UpdateSubValue
    \/ SaveTransaction
    \/ DeleteTx
    \/ StatusTimeout

Spec == Init /\ [][Next]_vars

\* ------------------------------------------------------------------------
\* Properties
\* ------------------------------------------------------------------------

\* the positions in a ledger of the buy transactions of one asset (sid = None)
\* or of one sub-asset (sid = Some(id))
BuyIdx(txs, aid, sid) ==
    {k \in 1..Len(txs) : /\ txs[k].type = "buy"
                         /\ txs[k].asset_id = aid
                         /\ txs[k].sub_asset_id = sid}

RECURSIVE SumOver(_, _)
SumOver(S, f) ==
    IF S = {} THEN 0
    ELSE LET k == CHOOSE x \in S : TRUE IN f[k] + SumOver(S \ {k}, f)

AmountThbOf(txs) == [k \in 1..Len(txs) |-> txs[k].amount_thb]
AmountUsdOf(txs) == [k \in 1..Len(txs) |-> NumOr0(txs[k].amount_usd)]
UnitsOf(txs) == [k \in 1..Len(txs) |-> NumOr0(txs[k].units)]
QtyOf(txs) == [k \in 1..Len(txs) |-> NumOr0(txs[k].qty)]

Derived == derivedAssets(assets, transactions)

\* the derived and the normalized view of the next state of a step
DerivedNext == derivedAssets(assets', transactions')
NormalizedNext == normalizeAssets(DerivedNext)

AssetIdx == 1..Len(assets)
SubIdx(i) == 1..Len(assets[i].subAssets)

\* C1: an asset or sub-asset with at least one buy transaction has a derived
\* invested equal to the sum of amount_thb over exactly its buy transactions,
\* whatever its stored invested is.
C1_InvestedIsSumOfBuys ==
    LET d == Derived
        thb == AmountThbOf(transactions)
    IN  \A i \in AssetIdx :
            /\ BuyIdx(transactions, assets[i].id, None) # {}
                  => d[i].invested = SumOver(BuyIdx(transactions, assets[i].id, None), thb)
            /\ \A j \in SubIdx(i) :
                  LET sid == Some(assets[i].subAssets[j].id)
                  IN  BuyIdx(transactions, assets[i].id, sid) # {}
                         => d[i].subAssets[j].invested =
                               SumOver(BuyIdx(transactions, assets[i].id, sid), thb)

\* an asset with two buy transactions whose stored invested differs from their sum
C1_Witness ==
    \E i \in AssetIdx :
        /\ Cardinality(BuyIdx(transactions, assets[i].id, None)) >= 2
        /\ assets[i].invested # Derived[i].invested
        /\ Derived[i].invested > 0

\* C2: an asset or sub-asset without a buy transaction has derived invested,
\* investedUSD and units/qty equal to its stored fields.
C2_FallbackToManual ==
    LET d == Derived
    IN  \A i \in AssetIdx :
            /\ BuyIdx(transactions, assets[i].id, None) = {}
                  => /\ d[i].invested = assets[i].invested
                     /\ d[i].investedUSD = assets[i].investedUSD
                     /\ d[i].units = assets[i].units
            /\ \A j \in SubIdx(i) :
                  LET x == assets[i].subAssets[j]
                  IN  BuyIdx(transactions, assets[i].id, Some(x.id)) = {}
                         => /\ d[i].subAssets[j].invested = x.invested
                            /\ d[i].subAssets[j].investedUSD = x.investedUSD
                            /\ d[i].subAssets[j].qty = x.qty

\* a sub-asset with stored cost and shares that has transactions, none of them a buy
C2_Witness ==
    \E i \in AssetIdx : \E j \in SubIdx(i) :
        LET x == assets[i].subAssets[j]
        IN  /\ BuyIdx(transactions, assets[i].id, Some(x.id)) = {}
            /\ \E k \in 1..Len(transactions) :
                  transactions[k].sub_asset_id = Some(x.id)
            /\ x.invested > 0
            /\ GtZero(x.qty)
            /\ Derived[i].subAssets[j].invested = x.invested

\* the ledger-derived fields of a derived view
LedgerFields(d) ==
    [i \in 1..Len(d) |->
        [invested |-> d[i].invested, investedUSD |-> d[i].investedUSD, units |-> d[i].units,
         subAssets |-> [j \in 1..Len(d[i].subAssets) |->
                           [invested    |-> d[i].subAssets[j].invested,
                            investedUSD |-> d[i].subAssets[j].investedUSD,
                            qty         |-> d[i].subAssets[j].qty]]]]

\* the current values of a list of assets and of their sub-assets
CurrentValues(d) ==
    [i \in 1..Len(d) |->
        [currentValue |-> d[i].currentValue,
         subAssets |-> [j \in 1..Len(d[i].subAssets) |-> d[i].subAssets[j].currentValue]]]

\* a step of the running application that removes transactions from the ledger
LedgerShrinks == loadStatus' = loadStatus /\ Len(transactions') < Len(transactions)

\* a step of the running application that adds one transaction that is not a buy
NonBuyLogged ==
    /\ loadStatus' = loadStatus
    /\ Len(transactions') = Len(transactions) + 1
    /\ \E k \in 1..Len(transactions') :
          /\ transactions'[k].type \in {"sell", "dividend", "fee"}
          /\ \A m \in 1..Len(transactions) : transactions[m].id # transactions'[k].id

\* C3: when deleteTx removes the last buy transaction of an asset or of a
\* sub-asset, the derivation of the next state gives that entity the stored
\* invested, investedUSD and units/qty it had before the deletion.
C3_DeleteOnlyBuyRevertsToManual ==
    [][LedgerShrinks =>
          \A i \in AssetIdx :
             /\ (/\ BuyIdx(transactions, assets[i].id, None) # {}
                 /\ BuyIdx(transactions', assets[i].id, None) = {})
                   => /\ Len(assets') = Len(assets)
                      /\ DerivedNext[i].invested = assets[i].invested
                      /\ DerivedNext[i].investedUSD = assets[i].investedUSD
                      /\ DerivedNext[i].units = assets[i].units
             /\ \A j \in SubIdx(i) :
                   LET x == assets[i].subAssets[j]
                   IN  (/\ BuyIdx(transactions, assets[i].id, Some(x.id)) # {}
                        /\ BuyIdx(transactions', assets[i].id, Some(x.id)) = {})
                          => /\ Len(assets') = Len(assets)
                             /\ Len(assets'[i].subAssets) = Len(assets[i].subAssets)
                             /\ DerivedNext[i].subAssets[j].invested = x.invested
                             /\ DerivedNext[i].subAssets[j].investedUSD = x.investedUSD
                             /\ DerivedNext[i].subAssets[j].qty = x.qty]_vars

\* the stored fund after the deletion of its only buy: the ledger is empty and
\* the derived cost and units are the stored ones
C3_Witness ==
    /\ dbPortfolio = Some(<<StoredFund>>)
    /\ loadStatus = "ready"
    /\ saveStatus = Some("saved")
    /\ transactions = <<>>
    /\ Len(assets) = 1
    /\ assets[1].invested > 0
    /\ Derived[1].invested = assets[1].invested
    /\ GtZero(assets[1].units)
    /\ Derived[1].units = assets[1].units

\* C5: logging a sell, a dividend or a fee leaves the derived invested,
\* investedUSD and units/qty of every asset and sub-asset unchanged.
C5_NonBuyLeavesLedgerFields ==
    [][NonBuyLogged => LedgerFields(DerivedNext) = LedgerFields(Derived)]_vars

\* an asset with a buy and a later sell whose derived invested is still the buy's amount
C5_Witness ==
    \E i \in AssetIdx :
        /\ BuyIdx(transactions, assets[i].id, None) # {}
        /\ \E k \in 1..Len(transactions) :
              /\ transactions[k].asset_id = assets[i].id
              /\ transactions[k].sub_asset_id = None
              /\ transactions[k].type = "sell"
              /\ transactions[k].amount_thb < 0
        /\ Derived[i].invested =
              SumOver(BuyIdx(transactions, assets[i].id, None), AmountThbOf(transactions))
        /\ Derived[i].invested > 0

\* C8: a step of saveTransaction or deleteTx leaves the currentValue of every
\* asset and sub-asset unchanged, in the stored assets and in the normalized view.
C8_LedgerStepsKeepCurrentValue ==
    [][(loadStatus' = loadStatus /\ transactions' # transactions)
          => /\ CurrentValues(assets') = CurrentValues(assets)
             /\ CurrentValues(NormalizedNext) = CurrentValues(normalizedAssets)]_vars

\* a buy larger than the current value has been logged on an asset whose
\* current value is still the manual one
C8_Witness ==
    \E i \in AssetIdx :
        /\ assets[i].currentValue = ManualValue
        /\ normalizedAssets[i].currentValue = ManualValue
        /\ \E k \in BuyIdx(transactions, assets[i].id, None) :
              transactions[k].amount_thb > 0
        /\ saveStatus = Some("saved")

SumSubs(subs, F(_)) == SumOver(1..Len(subs), [j \in 1..Len(subs) |-> F(subs[j])])

\* C4: every asset with a non-empty subAssets list has, in the normalized
\* view, an invested and a currentValue equal to the sums over its sub-assets.
C4_SubAssetsImplyRollup ==
    \A i \in AssetIdx :
        Len(assets[i].subAssets) > 0
           => /\ normalizedAssets[i].invested =
                    SumSubs(Derived[i].subAssets, LAMBDA x : x.invested)
              /\ normalizedAssets[i].currentValue =
                    SumSubs(Derived[i].subAssets, LAMBDA x : x.currentValue)

\* the step in which the applyCache effect applies the rows it fetched
CacheApplied == cacheFetch # None /\ cacheFetch' = None /\ loadStatus' = loadStatus

\* units * price rounded to two decimals when the quantity is positive, the
\* value kept otherwise
CacheRule(quantity, price, kept) ==
    IF GtZero(quantity) THEN QtyTimesPrice(quantity[1], price) ELSE kept

\* C6: when the cache is applied, an asset whose fund code is in the cache gets
\* currentValue = round2(units * price) if units > 0 and keeps it otherwise, and
\* so does, with qty, every sub-asset of a stock-group asset whose symbol is in
\* the cache.
C6_CacheRuleOnAssetsAndSubs ==
    [][CacheApplied =>
          /\ Len(assets') = Len(assets)
          /\ \A i \in AssetIdx :
                LET a == assets[i]
                    cache == cacheFetch[1]
                IN  /\ (a.finnomenaCode # "" /\ a.finnomenaCode \in DOMAIN cache)
                          => assets'[i].currentValue =
                                CacheRule(a.units, cache[a.finnomenaCode].price, a.currentValue)
                    /\ a.type \in STOCK_GROUP_TYPES
                          => /\ Len(assets'[i].subAssets) = Len(a.subAssets)
                             /\ \A j \in SubIdx(i) :
                                   LET x == a.subAssets[j]
                                   IN  (x.yahooSymbol # "" /\ x.yahooSymbol \in DOMAIN cache)
                                          => assets'[i].subAssets[j].currentValue =
                                                CacheRule(x.qty, cache[x.yahooSymbol].price,
                                                          x.currentValue)]_vars

\* C7: when the cache is applied, an asset or sub-asset with at least one buy
\* transaction is valued with its ledger-derived units or qty, and the group
\* totals of the normalized view are the sums over the revalued sub-assets.
C7_CacheUsesLedgerQuantities ==
    [][CacheApplied =>
          /\ Len(assets') = Len(assets)
          /\ \A i \in AssetIdx :
                LET a == assets[i]
                    cache == cacheFetch[1]
                IN  /\ (/\ a.finnomenaCode # ""
                        /\ a.finnomenaCode \in DOMAIN cache
                        /\ BuyIdx(transactions, a.id, None) # {})
                          => assets'[i].currentValue =
                                CacheRule(Derived[i].units, cache[a.finnomenaCode].price,
                                          a.currentValue)
                    /\ a.type \in STOCK_GROUP_TYPES
                          => /\ Len(assets'[i].subAssets) = Len(a.subAssets)
                             /\ \A j \in SubIdx(i) :
                                   LET x == a.subAssets[j]
                                   IN  (/\ x.yahooSymbol # ""
                                        /\ x.yahooSymbol \in DOMAIN cache
                                        /\ BuyIdx(transactions, a.id, Some(x.id)) # {})
                                          => assets'[i].subAssets[j].currentValue =
                                                CacheRule(Derived[i].subAssets[j].qty,
                                                          cache[x.yahooSymbol].price,
                                                          x.currentValue)
                             /\ NormalizedNext[i].currentValue =
                                   SumSubs(assets'[i].subAssets, LAMBDA x : x.currentValue)]_vars

RecordedIdx == {k \in 1..Len(transactions') : transactions'[k].id \notin IdsOf(transactions)}

\* the derived THB cost of every asset and sub-asset that has a buy transaction
LedgerCost(as, txs) ==
    LET d == derivedAssets(as, txs)
    IN  [i \in 1..Len(as) |->
            [invested |-> IF BuyIdx(txs, as[i].id, None) # {} THEN Some(d[i].invested) ELSE None,
             subAssets |-> [j \in 1..Len(as[i].subAssets) |->
                               IF BuyIdx(txs, as[i].id, Some(as[i].subAssets[j].id)) # {}
                               THEN Some(d[i].subAssets[j].invested) ELSE None]]]

\* C13: a transaction recorded for a USD asset or sub-asset carries amount_thb =
\* amount_usd * (the rate the form shows when it is recorded), rounded to two
\* decimals; a step that changes the live rate changes no recorded transaction
\* and no derived THB cost of an asset or sub-asset that has a buy.
C13_AmountThbFrozenAtRecordingRate ==
    [][/\ (loadStatus' = loadStatus /\ Len(transactions') = Len(transactions) + 1)
             => \A k \in RecordedIdx :
                   LET t == transactions'[k]
                   IN  t.currency = "USD"
                          => /\ t.amount_usd # None
                             /\ t.amount_thb =
                                   RoundDiv(t.amount_usd[1] *
                                            (IF usdThbRate = None THEN FormFallbackRate
                                             ELSE usdThbRate[1]), 100)
       /\ usdThbRate' # usdThbRate
             => /\ dbTransactions' = dbTransactions
                /\ loadStatus' = loadStatus
                      => /\ transactions' = transactions
                         /\ LedgerCost(assets', transactions') = LedgerCost(assets, transactions)
      ]_vars

\* the live rate is 36.25; a USD stock has a buy of 1.00 USD recorded at 35.00
\* and a buy of 2.50 USD recorded at 36.25 as 90.63 THB, and its derived cost
\* is the sum of the two recorded amounts
C13_Witness ==
    /\ usdThbRate = Some(3625)
    /\ \E i \in AssetIdx : \E j \in SubIdx(i) :
          LET sid == Some(assets[i].subAssets[j].id)
              buys == BuyIdx(transactions, assets[i].id, sid)
          IN  /\ \E k \in buys : /\ transactions[k].amount_usd = Some(100)
                                  /\ transactions[k].amount_thb = 3500
              /\ \E k \in buys : /\ transactions[k].amount_usd = Some(250)
                                  /\ transactions[k].amount_thb = 9063
              /\ Derived[i].subAssets[j].invested = 3500 + 9063

\* the positions in the next list of the assets this step saves from a form
SavedIdx == {i \in 1..Len(assets') : \A k \in 1..Len(assets) : assets[k] # assets'[i]}

\* C14: while there is no live rate (no USDTHB=X row, usdThbRate null) a USD
\* transaction is recorded at 33 THB/USD and a USD cost entered in the asset
\* form is converted at 33 THB/USD, the rate fetchUSDTHBRate falls back to.
C14_FallbackRateIs33 ==
    [][(/\ usdThbRate = None
        /\ RateSymbol \notin DOMAIN priceCache
        /\ loadStatus' = loadStatus
        /\ ops' = ops + 1)
          => /\ Len(transactions') = Len(transactions) + 1
                   => \A k \in RecordedIdx :
                         transactions'[k].amount_usd # None
                            => transactions'[k].amount_thb =
                                  RoundDiv(transactions'[k].amount_usd[1] * YahooFallbackRate, 100)
             /\ transactions' = transactions
                   => \A i \in SavedIdx :
                         (assets'[i].currency = "USD" /\ assets'[i].investedUSD # None)
                            => assets'[i].invested =
                                  RoundDiv(assets'[i].investedUSD[1] * YahooFallbackRate, 100)
      ]_vars

\* every populated amount and quantity of a transaction is <= 0
AllAtMostZero(t) ==
    /\ t.amount_thb <= 0
    /\ \A o \in {t.amount_usd, t.units, t.qty} : o # None => o[1] <= 0

\* every populated amount and quantity of a transaction is >= 0
AllAtLeastZero(t) ==
    /\ t.amount_thb >= 0
    /\ \A o \in {t.amount_usd, t.units, t.qty} : o # None => o[1] >= 0

\* C15: every transaction the log-transaction action records has all its
\* populated amounts and quantities <= 0 if it is a sell and >= 0 if it is a
\* buy, a dividend or a fee.
C15_SignConvention ==
    [][(loadStatus' = loadStatus /\ Len(transactions') = Len(transactions) + 1)
          => \A k \in RecordedIdx :
                IF transactions'[k].type = "sell" THEN AllAtMostZero(transactions'[k])
                ELSE AllAtLeastZero(transactions'[k])]_vars

\* ------------------------------------------------------------------------
\* Price cache application over stored documents
\* ------------------------------------------------------------------------

\* a fund whose "Units Held" was left blank
StoredFundNoUnits ==
    AssetFormSave([AssetFormOpen(None, FormFallbackRate) EXCEPT !.finnomenaCode = "F1"],
                  FormFallbackRate, 1)

\* a stock without a market symbol (10 shares, cost 7.00, value 9.00)
StoredPlainStock ==
    LET s0 == StockSubFormSave(StockSubFormEdit(StockSubFormOpen(None, FormFallbackRate),
                                                "qty"), FormFallbackRate, 2)
    IN  StockSubFormSave(StockSubFormEdit(StockSubFormOpen(Some(s0), FormFallbackRate),
                                          "money"), FormFallbackRate, 0)

\* a stock group holding the stored stock and the stock without a symbol
StoredMixedGroup == [StoredGroup EXCEPT !.subAssets = <<StoredStock, StoredPlainStock>>]

StoredAssets == {LegacyAsset, StoredFund, StoredFundNoUnits, StoredGroup,
                 StoredFundGroup, StoredMixedGroup}

\* the documents of up to MaxAssets stored assets, ids in the order of the list
RECURSIVE StoredDocs(_)
StoredDocs(n) ==
    IF n = 0 THEN {<<>>}
    ELSE StoredDocs(n - 1) \cup
         {Append(d, [a EXCEPT !.id = n]) : d \in {x \in StoredDocs(n - 1) : Len(x) = n - 1},
                                          a \in StoredAssets}

\* what the scheduled job may have left in price_cache: any of the rows
CacheMaps == {[s \in S |-> FullCache[s]] : S \in SUBSET (DOMAIN FullCache)}

CacheInit ==
    /\ supabase = TRUE
    /\ priceCache \in CacheMaps
    /\ dbPortfolio \in {Some(d) : d \in StoredDocs(MaxAssets)}
    /\ dbTransactions = <<>>
    /\ loadStatus = "loading"
    /\ assets = <<>>
    /\ transactions = <<>>
    /\ usdThbRate = None
    /\ saveStatus = None
    /\ cacheFetch = None
    /\ pending = {}
    /\ ops = 0
    /\ settings = DEFAULT_SETTINGS
    /\ now = 0
    /\ saveTimer = None
    /\ saveCalls = <<>>
    /\ upserts = {}
    /\ batch = None
    /\ job = None

CacheNext ==
    \/ Load
    \/ ApplyCache
    \/ Reload

CacheSpec == CacheInit /\ [][CacheNext]_vars

\* an asset without its sub-assets
OwnFields(a) == [a EXCEPT !.subAssets = <<>>]

\* C11: the assets that result from applying a cache are left as they are by
\* applying the same cache once more (currentValue, timestamps, sub-assets).
C11_ApplyCacheIdempotent ==
    [][CacheApplied => applyCache(assets', cacheFetch[1]) = assets']_vars

\* after a reload the cache was applied a second time to a fund that the first
\* application had revalued, and to a stock of a group
C11_Witness ==
    /\ ops >= 1
    /\ loadStatus = "ready"
    /\ cacheFetch = None
    /\ dbPortfolio = Some(assets)
    /\ \E i \in AssetIdx :
          /\ assets[i].navUpdatedAt = Some(FullCache["F1"].updated_at)
          /\ GtZero(assets[i].units)
          /\ assets[i].currentValue = QtyTimesPrice(assets[i].units[1], FullCache["F1"].price)
          /\ assets[i].currentValue # StoredFund.currentValue
    /\ \E i \in AssetIdx : \E j \in SubIdx(i) :
          /\ assets[i].subAssets[j].priceUpdatedAt = Some(FullCache["S1"].updated_at)
          /\ assets[i].subAssets[j].currentValue # StoredStock.currentValue

RECURSIVE Gcd(_, _)
Gcd(a, b) == IF b = 0 THEN a ELSE Gcd(b, a % b)

Abs(n) == IF n < 0 THEN -n ELSE n

\* the number (n / d) * 100 as a fraction in lowest terms; a zero denominator
\* gives NaN (0/0), Infinity (1/0) or -Infinity (-1/0)
Percent(n, d) ==
    IF d = 0 THEN [num |-> IF n > 0 THEN 1 ELSE IF n < 0 THEN -1 ELSE 0, den |-> 0]
    ELSE LET g == Gcd(Abs(n * 100), Abs(d))
             s == IF d < 0 THEN -1 ELSE 1
         IN  [num |-> s * ((n * 100) \div g), den |-> s * (d \div g)]

ZeroPercent == [num |-> 0, den |-> 1]

calcPL(a) ==
    IF a.isSpeculative \/ a.invested = 0
    THEN [pl |-> a.currentValue - a.invested, plPct |-> ZeroPercent]
    ELSE [pl |-> a.currentValue - a.invested,
          plPct |-> Percent(a.currentValue - a.invested, a.invested)]

investments == Filter(normalizedAssets, LAMBDA a : ~a.isSpeculative)
speculative == Filter(normalizedAssets, LAMBDA a : a.isSpeculative)
totalInvest == SumInts(Map(investments, LAMBDA a : a.currentValue))
totalInvested == SumInts(Map(investments, LAMBDA a : a.invested))
totalSpec == SumInts(Map(speculative, LAMBDA a : a.currentValue))
netWorth == totalInvest + totalSpec
grandTotal == totalInvest
totalPL == totalInvest - totalInvested
totalPLpct == IF totalInvested > 0 THEN Percent(totalPL, totalInvested) ELSE ZeroPercent
specPct == IF grandTotal > 0 THEN Percent(totalSpec, grandTotal) ELSE ZeroPercent

\* pieData: the value of the investments of each category that has one
pieGroups ==
    [t \in {investments[i].type : i \in 1..Len(investments)} |->
        SumInts(Map(Filter(investments, LAMBDA a : a.type = t), LAMBDA a : a.currentValue))]

\* a division a render carries out: where, and on which operands
Division(site, n, d) == [site |-> site, num |-> n, den |-> d]

\* the divisions of the body of App, carried out whatever tab is shown
AppDivisions ==
    (IF totalInvested > 0 THEN {Division("totalPLpct", totalPL, totalInvested)} ELSE {})
    \cup (IF grandTotal > 0 THEN {Division("specPct", totalSpec, grandTotal)} ELSE {})
    \cup {Division("pieData.pct", pieGroups[t], totalInvest) : t \in DOMAIN pieGroups}

\* the divisions of the allocation bar of the dashboard tab
DashboardDivisions ==
    {Division("dashboard.width", normalizedAssets[i].currentValue, grandTotal) :
        i \in 1..Len(normalizedAssets)}

calcPLDivisions(a) ==
    IF a.isSpeculative \/ a.invested = 0 THEN {}
    ELSE {Division("calcPL.plPct", a.currentValue - a.invested, a.invested)}

AssetCardDivisions(asset, total) ==
    calcPLDivisions(asset) \cup {Division("AssetCard.pct", asset.currentValue, total)}

StockGroupCardDivisions(asset, total) ==
    (IF groupTotals(asset).invested > 0
     THEN {Division("StockGroupCard.plPct",
                    groupTotals(asset).currentValue - groupTotals(asset).invested,
                    groupTotals(asset).invested)} ELSE {})
    \cup (IF total > 0
          THEN {Division("StockGroupCard.pct", groupTotals(asset).currentValue, total)}
          ELSE {})

\* the cards of the assets tab (investments) and of the speculation tab
\* (total={totalSpec || 1})
CardDivisions ==
    UNION {IF investments[i].type \in STOCK_GROUP_TYPES
           THEN StockGroupCardDivisions(investments[i], totalInvest)
           ELSE AssetCardDivisions(investments[i], totalInvest) : i \in 1..Len(investments)}
    \cup UNION {AssetCardDivisions(speculative[i], IF totalSpec = 0 THEN 1 ELSE totalSpec) :
                   i \in 1..Len(speculative)}

RenderDivisions == AppDivisions \cup DashboardDivisions \cup CardDivisions

\* Math.round(n / d): the nearest integer, a half goes up
MathRound(n, d) == (2 * n + d) \div (2 * d)

ProjectionPoints == 13      \* Array.from({ length: 13 }, ...)

\* bal * 1.008 + settings.dca, on a balance carried in 1/10000 baht (the
\* floating point balance is not rounded to baht from one month to the
\* next); bal * 1.008 is bal + bal / 125
Grow(bal, dca) == bal + RoundDiv(bal, 125) + dca * 100

\* a variant that lets the balance grow in month 0 as well
RECURSIVE projectionFromGrowsAtOnce(_, _, _)
projectionFromGrowsAtOnce(i, bal, dca) ==
    IF i = ProjectionPoints THEN <<>>
    ELSE LET b == Grow(bal, dca)
         IN  <<[month |-> i, value |-> MathRound(b, 10000)]>>
             \o projectionFromGrowsAtOnce(i + 1, b, dca)

RECURSIVE projectionFrom(_, _, _)
projectionFrom(i, bal, dca) ==
    IF i = ProjectionPoints THEN <<>>
    ELSE LET b == IF i > 0 THEN Grow(bal, dca) ELSE bal
         IN  <<[month |-> i, value |-> MathRound(b, 10000)]>>
             \o projectionFrom(i + 1, b, dca)

\* value is in whole baht
projection == projectionFrom(0, totalInvest * 100, settings.dca)

updateSettings(key, val) == [settings EXCEPT ![key] = val]

\* the four DCA buttons and the two ends of the speculation slider
SettingsInputs ==
    {<<"dca", v>> : v \in {50000, 100000, 200000, 500000}}
    \cup {<<"specCap", v>> : v \in {5, 30}}

\* updateSettings from the projection and settings tabs; the save that the
\* change schedules is followed in SaveSpec
UpdateSettings ==
    /\ UiShown
    /\ ops < MaxOps
    /\ \E in \in SettingsInputs : settings' = updateSettings(in[1], in[2])
    /\ ops' = ops + 1
    /\ UNCHANGED <<procVars, now, saveTimer, saveCalls, supabase, loadStatus, assets, transactions,
                   usdThbRate, saveStatus, priceCache, cacheFetch, pending, dbPortfolio,
                   dbTransactions>>

\* an asset saved from a form that was left blank (cost 0, value 0)
BlankAsset == AssetFormSave(AssetFormOpen(None, FormFallbackRate), FormFallbackRate, 1)

\* an asset marked "Speculative" in the form (cost 7.00, value 9.00)
SpeculativeAsset ==
    AssetFormSave(AssetFormEdit([AssetFormOpen(None, FormFallbackRate)
                                    EXCEPT !.isSpeculative = TRUE], "money"),
                  FormFallbackRate, 1)

\* "Initial Invested" takes any number: -7.00 typed, value 9.00
NegativeCostAsset ==
    AssetFormSave([AssetFormOpen(None, FormFallbackRate)
                      EXCEPT !.invested = Some(-ManualInvested),
                             !.currentValue = Some(ManualValue)],
                  FormFallbackRate, 1)

\* an asset worth 9.50 that cost 7.00
CentsAsset ==
    AssetFormSave([AssetFormOpen(None, FormFallbackRate)
                      EXCEPT !.invested = Some(ManualInvested),
                             !.currentValue = Some(ManualValue + 50)],
                  FormFallbackRate, 1)

AnalyticsAssets == {StoredFund, StoredGroup, BlankAsset, SpeculativeAsset,
                    NegativeCostAsset, CentsAsset}

\* the documents of up to n of these assets, ids in the order of the list
RECURSIVE AnalyticsDocs(_)
AnalyticsDocs(n) ==
    IF n = 0 THEN {<<>>}
    ELSE AnalyticsDocs(n - 1) \cup
         {Append(d, [a EXCEPT !.id = n]) :
             d \in {x \in AnalyticsDocs(n - 1) : Len(x) = n - 1}, a \in AnalyticsAssets}

AnalyticsInit ==
    /\ supabase = FALSE
    /\ priceCache = EmptyCache
    /\ dbPortfolio \in {Some(d) : d \in AnalyticsDocs(MaxAssets)}
    /\ dbTransactions = <<>>
    /\ loadStatus = "loading"
    /\ assets = <<>>
    /\ transactions = <<>>
    /\ usdThbRate = None
    /\ saveStatus = None
    /\ cacheFetch = None
    /\ pending = {}
    /\ ops = 0
    /\ settings = DEFAULT_SETTINGS
    /\ now = 0
    /\ saveTimer = None
    /\ saveCalls = <<>>
    /\ upserts = {}
    /\ batch = None
    /\ job = None

AnalyticsNext ==
    \/ Load
    \/ UpdateSettings
    \/ UpdateValue
    \/ DeleteAsset

AnalyticsSpec == AnalyticsInit /\ [][AnalyticsNext]_vars

\* the assets App hands to calcPL
ShownAssets == {normalizedAssets[i] : i \in 1..Len(normalizedAssets)}

\* C16: calcPL gives pl = currentValue - invested, plPct = pl / invested * 100
\* for an asset that is not speculative and has invested > 0, and plPct = 0
\* for every other asset (speculative, or invested not greater than 0).
C16_CalcPL ==
    \A a \in ShownAssets :
        /\ calcPL(a).pl = a.currentValue - a.invested
        /\ calcPL(a).plPct = IF ~a.isSpeculative /\ a.invested > 0
                             THEN Percent(a.currentValue - a.invested, a.invested)
                             ELSE ZeroPercent

\* C17: no percentage of a render (allocation share of an asset, share of a
\* category, plPct, totalPLpct, speculation percentage) is computed by a
\* division by zero, whatever the assets and the settings.
C17_NoDivisionByZero ==
    UiShown => \A d \in RenderDivisions : d.den # 0

\* the balances of months 0 to n, in 1/10000 baht
RECURSIVE Balances(_)
Balances(n) ==
    IF n = 0 THEN <<totalInvest * 100>>
    ELSE LET before == Balances(n - 1)
         IN  Append(before, Grow(before[n], settings.dca))

\* C18 as stated: 13 points, point 0 is totalInvest and every later point is
\* the point before it times 1.008 plus settings.dca.
C18_PointsFollowRecurrence ==
    UiShown =>
        LET points == projection
        IN  /\ Len(points) = 13
            /\ points[1].value * 100 = totalInvest
            /\ \A i \in 2..Len(points) :
                  points[i].value * 1000 = points[i - 1].value * 1008 + settings.dca * 10

\* C18, amended: 13 points for months 0 to 12; the point of month i is the
\* balance of month i rounded to whole baht, where the balance of month 0 is
\* totalInvest and the balance of month i is the unrounded balance of month
\* i - 1 times 1.008 plus settings.dca.
C18_PointsAreRoundedBalances ==
    UiShown =>
        LET points == projection
            balance == Balances(12)
        IN  /\ Len(points) = 13
            /\ \A i \in 1..Len(points) :
                  /\ points[i].month = i - 1
                  /\ points[i].value = MathRound(balance[i], 10000)

\* an asset worth 9.50 alone and a DCA of 500 chosen in the projection tab:
\* month 0 shows 10 and month 1 shows 510 (509.576), not 10 * 1.008 + 500
C18_Witness ==
    /\ UiShown
    /\ totalInvest = CentsAsset.currentValue
    /\ settings.dca = 50000
    /\ ops >= 1
    /\ projection[1].value = 10
    /\ projection[2].value = 510
    /\ projection[13].value > projection[12].value

\* ------------------------------------------------------------------------
\* Staleness of a cached price, with the clock running
\* ------------------------------------------------------------------------

\* hours the clock is followed for
MaxClock == 20

StaleThresholdHours == 18   \* isCacheStale(updatedAt, thresholdHours = 18)

\* a variant that calls an entry stale from the threshold on
isCacheStaleFromThreshold(updatedAt, thresholdHours) ==
    IF updatedAt = None THEN TRUE
    ELSE (now - updatedAt[1]) * 3600000 >= thresholdHours * 60 * 60 * 1000

\* updatedAt is None (null) or Some(hour); ageMs = Date.now() - getTime()
isCacheStale(updatedAt, thresholdHours) ==
    IF updatedAt = None THEN TRUE
    ELSE (now - updatedAt[1]) * 3600000 > thresholdHours * 60 * 60 * 1000

\* a row of price_cache whose updated_at is None or Some(hour)
StampedRow(p, at) == [price |-> p, price_date |-> 1, updated_at |-> at]

\* an hour passes
Tick ==
    /\ now < MaxClock
    /\ now' = now + 1
    /\ UNCHANGED <<procVars, settings, saveTimer, saveCalls, supabase, loadStatus, assets, transactions,
                   usdThbRate, saveStatus, priceCache, cacheFetch, pending, dbPortfolio,
                   dbTransactions, ops>>

\* saveAsset of a fund that is saved as the form shows it, with its
\* cache-on-save lookup: the NAV is fetched when the code has no row or a
\* stale one, and the row and the asset are stamped with the time of the fetch
SaveAssetAt ==
    /\ UiShown
    /\ \E i \in 1..Len(assets), navFound \in BOOLEAN, upsertOk \in BOOLEAN :
          LET asset == AssetFormSave(AssetFormOpen(Some(assets[i]), FormRate), FormRate, 0)
              code == asset.finnomenaCode
              cached == getPriceCache({code})
              fetched == /\ code # "" /\ supabase
                         /\ code \notin DOMAIN cached
                               \/ isCacheStale(cached[code].updated_at, StaleThresholdHours)
                         /\ navFound /\ GtZero(asset.units)
          IN  /\ priceCache' = IF fetched /\ upsertOk
                               THEN [s \in DOMAIN priceCache \cup {code} |->
                                       IF s = code THEN StampedRow(FetchedNav, Some(now))
                                       ELSE priceCache[s]]
                               ELSE priceCache
              /\ assets' = Map(Upsert(assets, asset), LAMBDA a :
                                 IF fetched /\ a.id = asset.id
                                 THEN [a EXCEPT !.currentValue =
                                                    QtyTimesPrice(asset.units[1], FetchedNav),
                                                !.navUpdatedAt = Some(now)]
                                 ELSE a)
    /\ UNCHANGED <<sideVars, supabase, loadStatus, transactions, usdThbRate, saveStatus,
                   cacheFetch, pending, dbPortfolio, dbTransactions, ops>>

\* the fund is loaded; its code has no row, a row without a time, or a row
\* written at hour 0
StaleInit ==
    /\ supabase = TRUE
    /\ priceCache \in {EmptyCache} \cup
                      {[s \in {"F1"} |-> StampedRow(1000, at)] : at \in {None, Some(0)}}
    /\ dbPortfolio \in {Some(<<a>>) : a \in {StoredFund, StoredFundNoUnits}}
    /\ dbTransactions = <<>>
    /\ loadStatus = "ready"
    /\ assets = dbPortfolio[1]
    /\ transactions = <<>>
    /\ usdThbRate = None
    /\ saveStatus = None
    /\ cacheFetch = None
    /\ pending = {}
    /\ ops = 0
    /\ settings = DEFAULT_SETTINGS
    /\ now = 0
    /\ saveTimer = None
    /\ saveCalls = <<>>
    /\ upserts = {}
    /\ batch = None
    /\ job = None

StaleNext ==
    \/ Tick
    \/ SaveAssetAt

StaleSpec == StaleInit /\ [][StaleNext]_vars

\* the times an entry may carry
Stamps == {None} \cup {Some(t) : t \in 0..MaxClock}

\* C19: isCacheStale(updatedAt, thresholdHours) is true exactly when updatedAt
\* is missing or now - updatedAt is strictly greater than thresholdHours, so
\* an entry that is stale stays stale as the clock advances; the lookup of
\* saveAsset rewrites a row only if the row is missing or stale.
C19_StaleExactAndMonotonic ==
    /\ [](\A u \in Stamps, h \in 0..MaxClock :
             isCacheStale(u, h) <=> (u = None \/ now - u[1] > h))
    /\ [][/\ \A u \in Stamps, h \in 0..MaxClock :
                (now' > now /\ isCacheStale(u, h)) => isCacheStale(u, h)'
          /\ priceCache' # priceCache =>
                \/ "F1" \notin DOMAIN priceCache
                \/ priceCache["F1"].updated_at = None
                \/ now - priceCache["F1"].updated_at[1] > StaleThresholdHours]_vars

\* a row that the lookup wrote at hour 1 is 18 hours old: it is not stale yet,
\* a save at this hour leaves it, and it is stale by a threshold of 17
C19_Witness ==
    /\ now = 1 + StaleThresholdHours
    /\ "F1" \in DOMAIN priceCache
    /\ priceCache["F1"].updated_at = Some(1)
    /\ \E i \in AssetIdx : assets[i].navUpdatedAt = Some(1)
    /\ ~isCacheStale(priceCache["F1"].updated_at, StaleThresholdHours)
    /\ isCacheStale(priceCache["F1"].updated_at, StaleThresholdHours - 1)

\* ------------------------------------------------------------------------
\* The debounced save of the portfolio
\* ------------------------------------------------------------------------

SaveDelay == 8              \* setTimeout(..., 800), in steps of 100 ms

\* a variant whose timer holds the assets and the settings of the render
\* before the one it was set in
DebouncedSaveOfLastRender(as, st) ==
    Some([left |-> SaveDelay, assets |-> assets, settings |-> settings])

\* the effect on [assets, settings, loadStatus, userId]: the cleanup clears
\* the pending timer and a new one is set that holds the assets and the
\* settings of the render it was set in
DebouncedSave(as, st) == Some([left |-> SaveDelay, assets |-> as, settings |-> st])

\* deleteAsset or updateValue followed by the effect of the next render
EditAssets ==
    /\ loadStatus = "ready"
    /\ ops < MaxOps
    /\ \E i \in 1..Len(assets) :
          \/ assets' = deleteAsset(assets[i].id)
          \/ \E typed \in UpdateValues :
                assets' = updateValue(assets[i].id,
                                      UpdateValueModalSave(assets[i], typed, FormRate))
    /\ saveStatus' = Some("saving")
    /\ saveTimer' = DebouncedSave(assets', settings)
    /\ ops' = ops + 1
    /\ UNCHANGED <<procVars, settings, now, saveCalls, supabase, loadStatus, transactions, usdThbRate,
                   priceCache, cacheFetch, pending, dbPortfolio, dbTransactions>>

\* updateSettings followed by the effect of the next render
EditSettings ==
    /\ loadStatus = "ready"
    /\ ops < MaxOps
    /\ \E in \in SettingsInputs : settings' = updateSettings(in[1], in[2])
    /\ saveStatus' = Some("saving")
    /\ saveTimer' = DebouncedSave(assets, settings')
    /\ ops' = ops + 1
    /\ UNCHANGED <<procVars, assets, now, saveCalls, supabase, loadStatus, transactions, usdThbRate,
                   priceCache, cacheFetch, pending, dbPortfolio, dbTransactions>>

\* 100 ms pass with a timer pending
TimePasses ==
    /\ saveTimer # None
    /\ saveTimer[1].left > 0
    /\ saveTimer' = Some([saveTimer[1] EXCEPT !.left = @ - 1])
    /\ UNCHANGED <<procVars, settings, now, saveCalls, supabase, loadStatus, assets, transactions,
                   usdThbRate, saveStatus, priceCache, cacheFetch, pending, dbPortfolio,
                   dbTransactions, ops>>

\* the timer callback: savePortfolio(userId, assets, settings) of the render
\* that set the timer; without a Supabase client the write is local and ok
SaveFires ==
    /\ saveTimer # None
    /\ saveTimer[1].left = 0
    /\ saveCalls' = Append(saveCalls, [assets |-> saveTimer[1].assets,
                                       settings |-> saveTimer[1].settings])
    /\ \E ok \in IF supabase THEN BOOLEAN ELSE {TRUE} :
          /\ dbPortfolio' = IF ok THEN Some(saveTimer[1].assets) ELSE dbPortfolio
          /\ saveStatus' = Some(IF ok THEN "saved" ELSE "error")
    /\ saveTimer' = None
    /\ UNCHANGED <<procVars, settings, now, supabase, loadStatus, assets, transactions, usdThbRate,
                   priceCache, cacheFetch, pending, dbTransactions, ops>>

\* the render after load(): the stored assets are shown and the effect has
\* set its first timer
SaveInit ==
    /\ supabase \in BOOLEAN
    /\ priceCache = EmptyCache
    /\ dbPortfolio \in {Some(d) : d \in {<<>>, <<StoredFund>>,
                                         <<StoredFund, [LegacyAsset EXCEPT !.id = 2]>>}}
    /\ dbTransactions = <<>>
    /\ loadStatus = "ready"
    /\ assets = dbPortfolio[1]
    /\ transactions = <<>>
    /\ usdThbRate = None
    /\ saveStatus = Some("saving")
    /\ cacheFetch = None
    /\ pending = {}
    /\ ops = 0
    /\ settings = DEFAULT_SETTINGS
    /\ now = 0
    /\ saveTimer = DebouncedSave(assets, settings)
    /\ saveCalls = <<>>
    /\ upserts = {}
    /\ batch = None
    /\ job = None

SaveNext ==
    \/ EditAssets
    \/ EditSettings
    \/ TimePasses
    \/ SaveFires
    \/ StatusTimeout

\* a timer that is due is run by the event loop as long as the page is open
SaveSpec == SaveInit /\ [][SaveNext]_vars /\ WF_vars(TimePasses) /\ WF_vars(SaveFires)

\* what a call of savePortfolio carries
Payload(as, st) == [assets |-> as, settings |-> st]

\* C20: an edit of the assets or of the settings makes no call of
\* savePortfolio, cancels the pending write and schedules one for the state
\* after the edit, a full delay ahead; a call is made only by a timer that
\* has run its whole delay since the last edit, carries the assets and the
\* settings as they are then, and leaves no write pending; so a burst of
\* edits ends in one call with the state after its last edit, and every
\* pending write is made in the end.
C20_DebouncedSave ==
    /\ [](IF saveTimer = None
          THEN saveCalls # <<>> /\ saveCalls[Len(saveCalls)] = Payload(assets, settings)
          ELSE /\ saveTimer[1].assets = assets
               /\ saveTimer[1].settings = settings)
    /\ [][/\ ops' # ops =>
                /\ saveCalls' = saveCalls
                /\ saveTimer' = Some([left |-> SaveDelay, assets |-> assets',
                                      settings |-> settings'])
          /\ saveCalls' # saveCalls =>
                /\ saveTimer # None
                /\ saveTimer[1].left = 0
                /\ saveCalls' = Append(saveCalls, Payload(assets, settings))
                /\ saveTimer' = None
                /\ ops' = ops
          /\ (ops' = ops /\ saveCalls' = saveCalls /\ saveTimer' # saveTimer) =>
                /\ saveTimer # None /\ saveTimer' # None
                /\ saveTimer'[1] = [saveTimer[1] EXCEPT !.left = @ - 1]
                /\ saveTimer'[1].left >= 0]_vars
    /\ (saveTimer # None) ~> (saveTimer = None)

\* two edits were made while a write was pending, the last one of the
\* settings, and one call was made in all, with the state after them
C20_Witness ==
    /\ ops >= 2
    /\ saveTimer = None
    /\ Len(saveCalls) = 1
    /\ saveCalls[1] = Payload(assets, settings)
    /\ settings # DEFAULT_SETTINGS
    /\ dbPortfolio # None /\ assets # <<>> /\ dbPortfolio[1] = assets
    /\ assets # <<StoredFund>>
    /\ Len(assets) = 1

\* ------------------------------------------------------------------------
\* Cache-on-save lookups
\* ------------------------------------------------------------------------

\* the cache-on-save lookups that a step starts and that a step ends
LookupsStarted == IF loadStatus' = loadStatus THEN pending' \ pending ELSE {}
LookupsEnded == IF loadStatus' = loadStatus THEN pending \ pending' ELSE {}

\* the asset or sub-asset of a lookup, in a list of assets
LookupTargets(as, l) ==
    IF l.kind = "fund" THEN {as[i] : i \in {k \in 1..Len(as) : as[k].id = l.assetId}}
    ELSE UNION {{as[i].subAssets[j] :
                    j \in {k \in 1..Len(as[i].subAssets) : as[i].subAssets[k].id = l.subId}} :
                i \in {k \in 1..Len(as) : as[k].id = l.assetId}}

\* C21: the step of saveAsset or saveSubAsset that starts a lookup has put the
\* saved asset or sub-asset into the list; a lookup that ends without a row
\* for its symbol in the price cache (the lookup or the write failed) leaves
\* the list of assets exactly as it was, and no lookup changes the statuses.
C21_CacheOnSaveKeepsSavedAsset ==
    [][/\ \A l \in LookupsStarted :
             \E x \in LookupTargets(assets', l) :
                IF l.kind = "fund" THEN x.finnomenaCode = l.symbol /\ x.units = l.qty
                ELSE x.yahooSymbol = l.symbol /\ x.qty = l.qty
       /\ \A l \in LookupsEnded :
             /\ saveStatus' = saveStatus
             /\ l.symbol \notin DOMAIN priceCache' => assets' = assets]_vars

\* ------------------------------------------------------------------------
\* A cache-on-save lookup in flight while the clock runs and the scheduled
\* job writes the price cache
\* ------------------------------------------------------------------------

JobFetchedNav == 1200       \* fetchFinnomenaNAV of the scheduled job: 12.00 THB

\* saveAsset of a fund saved as the form shows it, up to fetchCurrentNAV: the
\* asset is put into the list, the row of its code is read, and the NAV is
\* asked for if there is no row or a stale one
SaveAssetStarts ==
    /\ UiShown
    /\ \E i \in 1..Len(assets) :
          LET asset == AssetFormSave(AssetFormOpen(Some(assets[i]), FormRate), FormRate, 0)
              code == asset.finnomenaCode
              cached == getPriceCache({code})
              asks == IF code = "" \/ ~supabase THEN FALSE
                      ELSE IF code \notin DOMAIN cached THEN TRUE
                      ELSE isCacheStale(cached[code].updated_at, StaleThresholdHours)
              l == [kind |-> "fund", assetId |-> asset.id, subId |-> 0, symbol |-> code,
                    qty |-> asset.units, currency |-> asset.currency, startedAt |-> now]
          IN  /\ assets' = Upsert(assets, asset)
              /\ IF asks
                 THEN /\ Cardinality(pending) < MaxPending
                      /\ pending' = pending \cup {l}
                 ELSE pending' = pending
    /\ UNCHANGED <<sideVars, supabase, loadStatus, transactions, usdThbRate, saveStatus,
                   priceCache, cacheFetch, dbPortfolio, dbTransactions, ops>>

\* fetchCurrentNAV resolves and the rest of saveAsset runs: with a NAV and
\* units > 0 the row is upserted and the asset is revalued; without, or when
\* the fetch throws, nothing is done
NavArrives ==
    \E l \in pending, navFound \in BOOLEAN, upsertOk \in BOOLEAN :
        LET applied == navFound /\ GtZero(l.qty)
        IN  /\ pending' = pending \ {l}
            /\ priceCache' = IF applied /\ upsertOk
                             THEN [s \in DOMAIN priceCache \cup {l.symbol} |->
                                     IF s = l.symbol THEN StampedRow(FetchedNav, Some(now))
                                     ELSE priceCache[s]]
                             ELSE priceCache
            /\ assets' = Map(assets, LAMBDA a :
                               IF applied /\ a.id = l.assetId
                               THEN [a EXCEPT !.currentValue =
                                                  QtyTimesPrice(l.qty[1], FetchedNav),
                                              !.navUpdatedAt = Some(now)]
                               ELSE a)
            /\ UNCHANGED <<sideVars, supabase, loadStatus, transactions, usdThbRate,
                           saveStatus, cacheFetch, dbPortfolio, dbTransactions, ops>>

\* the scheduled job upserts the row of a fund code it found in a portfolio
JobWrites ==
    /\ supabase
    /\ \E code \in {assets[i].finnomenaCode :
                       i \in {k \in 1..Len(assets) : assets[k].finnomenaCode # ""}} :
          priceCache' = [s \in DOMAIN priceCache \cup {code} |->
                            IF s = code THEN StampedRow(JobFetchedNav, Some(now))
                            ELSE priceCache[s]]
    /\ UNCHANGED <<sideVars, supabase, loadStatus, assets, transactions, usdThbRate,
                   saveStatus, cacheFetch, pending, dbPortfolio, dbTransactions, ops>>

FlightNext ==
    \/ Tick
    \/ SaveAssetStarts
    \/ NavArrives
    \/ JobWrites

FlightSpec == StaleInit /\ [][FlightNext]_vars

\* C22: when the result of a lookup arrives and the price cache holds a row
\* for its symbol that was written after the lookup started, the row is left
\* as it is and no asset changes.
C22_StaleResultDiscarded ==
    [][\A l \in pending \ pending' :
          (/\ l.symbol \in DOMAIN priceCache
           /\ priceCache[l.symbol].updated_at # None
           /\ priceCache[l.symbol].updated_at[1] > l.startedAt)
             => /\ priceCache'[l.symbol] = priceCache[l.symbol]
                /\ assets' = assets]_vars

\* ---------------------------------------------------------------------------
\* The batch lookups: fetchSubAssetPrices (yahooFinanceService.js) and
\* fetchAllFundNAVs (finnomenaService.js). A provider request ends in one of
\* three ways: it returns a quote, it returns no quote, or it throws.

MaxBatch == 2

Found(p, c) == [status |-> "found", price |-> p, currency |-> c]
NotFound == [status |-> "notFound", price |-> 0, currency |-> ""]
Throws == [status |-> "throws", price |-> 0, currency |-> ""]

Resolved(r) == [rejected |-> FALSE, value |-> r]
Rejected == [rejected |-> TRUE, value |-> <<>>]

\* fetchUSDTHBRate: the rate kept for the session while it is younger than an
\* hour, else the quote of USDTHB=X, else the kept rate or 33. The request is
\* awaited without a try, so its error is the error of the call.
fetchUSDTHBRate(kept, fresh, quote) ==
    IF kept # None /\ kept[1] # 0 /\ fresh THEN Resolved(kept[1])
    ELSE IF quote.status = "throws" THEN Rejected
    ELSE IF quote.status = "found" /\ quote.price # 0 THEN Resolved(quote.price)
    ELSE IF kept # None THEN Resolved(kept[1])
    ELSE Resolved(YahooFallbackRate)

\* the targets of fetchSubAssetPrices: a symbol and a positive quantity
priceTargets(subAssets) == Filter(subAssets, LAMBDA s : s.yahooSymbol # "" /\ GtZero(s.qty))

\* the targets of fetchAllFundNAVs: a fund code
navTargets(as) == Filter(as, LAMBDA a : a.finnomenaCode # "")

\* fetchSubAssetPrices(subAssets); quotes gives the outcome of fetchStockPrice
\* per symbol and b the kept rate and the outcome of the USDTHB=X request
fetchSubAssetPrices(subAssets, quotes, b) ==
    LET targets == priceTargets(subAssets)
        needsUSD == \E i \in 1..Len(targets) : targets[i].currency = "USD"
        rateCall == fetchUSDTHBRate(b.kept, b.fresh, b.rateQuote)
        rateOfCall == IF needsUSD THEN Some(rateCall.value) ELSE None
        got == {i \in 1..Len(targets) : quotes[targets[i].yahooSymbol].status = "found"}
        last(id) == CHOOSE i \in got : /\ targets[i].id = id
                                       /\ \A k \in got : targets[k].id = id => k <= i
        entry(sub) ==
            LET data == quotes[sub.yahooSymbol]
                isUSD == data.currency = "USD" \/ sub.currency = "USD"
                rate == IF ~isUSD THEN 100
                        ELSE IF rateOfCall = None THEN YahooFallbackRate ELSE rateOfCall[1]
            IN  [newValue |-> RoundDiv(sub.qty[1] * data.price * rate, 1000),
                 price |-> data.price, currency |-> data.currency]
    IN  IF targets = <<>> THEN Resolved([id \in {} |-> 0])
        ELSE IF needsUSD /\ rateCall.rejected THEN Rejected
        ELSE Resolved([id \in {targets[i].id : i \in got} |-> entry(targets[last(id)])])

\* fetchAllFundNAVs(assets); navs gives the outcome of fetchCurrentNAV per code
fetchAllFundNAVs(as, navs) ==
    LET targets == navTargets(as)
        got == {i \in 1..Len(targets) : navs[targets[i].finnomenaCode].status = "found"}
        last(id) == CHOOSE i \in got : /\ targets[i].id = id
                                       /\ \A k \in got : targets[k].id = id => k <= i
    IN  Resolved([id \in {targets[i].id : i \in got} |->
                     [nav |-> navs[targets[last(id)].finnomenaCode].price]])

\* the sub-assets and the funds a batch is called with
BatchThbStock == [StoredStock EXCEPT !.id = 2, !.yahooSymbol = "S2", !.currency = "THB"]
BatchSubAssets == {StoredStock, BatchThbStock, StoredPlainStock,
                   [StoredStock EXCEPT !.id = 3, !.qty = Some(0)]}
BatchFunds == {StoredFund, [StoredFund EXCEPT !.id = 2, !.finnomenaCode = "F2"], LegacyAsset}

RECURSIVE ListsOf(_, _)
ListsOf(S, n) ==
    IF n = 0 THEN {<<>>}
    ELSE LET shorter == ListsOf(S, n - 1)
         IN  shorter \cup {Append(l, x) : l \in {m \in shorter : Len(m) = n - 1},
                                          x \in S}

DistinctIds(l) == \A i, j \in 1..Len(l) : l[i].id = l[j].id => i = j

StockQuotes == [S1 : {Found(FetchedUsdPrice, "USD"), NotFound, Throws},
                S2 : {Found(FetchedThbPrice, "THB"), Found(FetchedUsdPrice, "USD"),
                      NotFound, Throws}]
FundNavs == [F1 : {Found(FetchedNav, "THB"), NotFound, Throws},
             F2 : {Found(JobFetchedNav, "THB"), NotFound, Throws}]

\* a call that has not run yet: the function, its argument, the outcome of
\* every request it will make and the rate kept from an earlier call
BatchCalls ==
    {[fn |-> "fetchSubAssetPrices", list |-> l, outcomes |-> q, kept |-> k[1],
      fresh |-> k[2], rateQuote |-> r, out |-> None] :
        l \in {m \in ListsOf(BatchSubAssets, MaxBatch) : DistinctIds(m)},
        q \in StockQuotes,
        k \in {<<None, FALSE>>, <<Some(YahooLiveRate), FALSE>>, <<Some(YahooLiveRate), TRUE>>},
        r \in {Found(YahooLiveRate, "THB"), NotFound, Throws}}
    \cup
    {[fn |-> "fetchAllFundNAVs", list |-> l, outcomes |-> q, kept |-> None,
      fresh |-> FALSE, rateQuote |-> NotFound, out |-> None] :
        l \in {m \in ListsOf(BatchFunds, MaxBatch) : DistinctIds(m)},
        q \in FundNavs}

BatchInit ==
    /\ supabase = TRUE
    /\ priceCache = EmptyCache
    /\ dbPortfolio = None
    /\ dbTransactions = <<>>
    /\ loadStatus = "loading"
    /\ assets = <<>>
    /\ transactions = <<>>
    /\ usdThbRate = None
    /\ saveStatus = None
    /\ cacheFetch = None
    /\ pending = {}
    /\ ops = 0
    /\ settings = DEFAULT_SETTINGS
    /\ now = 0
    /\ saveTimer = None
    /\ saveCalls = <<>>
    /\ upserts = {}
    /\ batch \in BatchCalls
    /\ job = None

appVars == <<supabase, loadStatus, assets, transactions, usdThbRate, saveStatus,
             priceCache, cacheFetch, pending, dbPortfolio, dbTransactions, ops,
             settings, now, saveTimer, saveCalls>>

\* a call of fetchSubAssetPrices runs to its end
FetchSubAssetPrices ==
    /\ batch # None /\ batch.out = None /\ batch.fn = "fetchSubAssetPrices"
    /\ batch' = [batch EXCEPT !.out = Some(fetchSubAssetPrices(batch.list, batch.outcomes,
                                                               batch))]
    /\ UNCHANGED <<appVars, upserts, job>>

\* a call of fetchAllFundNAVs runs to its end
FetchAllFundNAVs ==
    /\ batch # None /\ batch.out = None /\ batch.fn = "fetchAllFundNAVs"
    /\ batch' = [batch EXCEPT !.out = Some(fetchAllFundNAVs(batch.list, batch.outcomes))]
    /\ UNCHANGED <<appVars, upserts, job>>

BatchNext == FetchSubAssetPrices \/ FetchAllFundNAVs

BatchSpec == BatchInit /\ [][BatchNext]_vars

\* the targets of the call whose own request returned a quote
SucceededTargets ==
    LET targets == IF batch.fn = "fetchSubAssetPrices" THEN priceTargets(batch.list)
                   ELSE navTargets(batch.list)
        key(x) == IF batch.fn = "fetchSubAssetPrices" THEN x.yahooSymbol ELSE x.finnomenaCode
    IN  {targets[i].id : i \in {k \in 1..Len(targets) :
                                  batch.outcomes[key(targets[k])].status = "found"}}

\* C23: a batch lookup always resolves, whatever request fails (the request
\* of USDTHB=X included), and its result has an entry for exactly the targets
\* whose own request succeeded.
C23_BatchAlwaysResolves ==
    (batch # None /\ batch.out # None) =>
        /\ ~batch.out[1].rejected
        /\ DOMAIN batch.out[1].value = SucceededTargets

\* ---------------------------------------------------------------------------
\* The scheduled refresh job (scripts/update-price-cache.js): main() runs
\* discoverSymbols, the request of USDTHB=X, one request per stock symbol, one
\* per fund code, and one upsert of the rows it collected.

\* the keys of a Map or Set in the order of their first insertion
RECURSIVE InsertionOrder(_)
InsertionOrder(s) ==
    IF s = <<>> THEN <<>>
    ELSE LET front == InsertionOrder(SubSeq(s, 1, Len(s) - 1))
             x == s[Len(s)]
         IN  IF \E i \in 1..Len(front) : front[i] = x THEN front ELSE Append(front, x)

RECURSIVE AllSubAssets(_)
AllSubAssets(as) ==
    IF as = <<>> THEN <<>> ELSE as[1].subAssets \o AllSubAssets(Tail(as))

\* discoverSymbols over the stored portfolio: the stock symbols, each with the
\* type of the last sub-asset that names it, and the fund codes
discoverSymbols(as) ==
    LET subs == Filter(AllSubAssets(as), LAMBDA s : s.yahooSymbol # "")
        funds == Filter(as, LAMBDA a : a.finnomenaCode # "")
        typeOf(sym) ==
            LET k == CHOOSE i \in 1..Len(subs) :
                        /\ subs[i].yahooSymbol = sym
                        /\ \A j \in 1..Len(subs) : subs[j].yahooSymbol = sym => j <= i
            IN  IF subs[k].currency = "USD" THEN "us_stock" ELSE "thai_stock"
        symbols == InsertionOrder(Map(subs, LAMBDA s : s.yahooSymbol))
    IN  [yahooSymbols |-> Map(symbols, LAMBDA sym : [symbol |-> sym, type |-> typeOf(sym)]),
         fundsSet |-> InsertionOrder(Map(funds, LAMBDA a : a.finnomenaCode))]

\* the price of the row main() pushes for a stock: converted when the quote
\* is in USD and the row of USDTHB=X was pushed before
jobThbPrice(rows, quote) ==
    LET rate == {rows[i].price : i \in {k \in 1..Len(rows) : rows[k].symbol = RateSymbol}}
    IN  IF quote.currency = "USD" /\ rate # {}
        THEN RoundDiv(quote.price * (CHOOSE r \in rate : TRUE), 100)
        ELSE quote.price

\* a catch that would rethrow: the first failed request ends main()
noteErrorAndAbort(j, symbol) ==
    [j EXCEPT !.errors = Append(@, symbol), !.pc = "exit", !.exit = Some(1)]

\* the catch of a request: the error is noted and main() goes on
noteError(j, symbol) == [j EXCEPT !.errors = Append(@, symbol)]

\* main() between two awaits
JobQueue(j) ==
    IF j.pc = "rate" THEN <<RateSymbol>>
    ELSE IF j.pc = "stocks" THEN Map(j.yahooSymbols, LAMBDA y : y.symbol)
    ELSE IF j.pc = "funds" THEN j.fundsSet
    ELSE <<>>

\* the loop position after the request at position j.at of the current loop
JobAdvance(j) ==
    LET next == [j EXCEPT !.at = @ + 1, !.inFlight = {}]
        skip(k) == IF k.pc \in {"rate", "stocks", "funds"} /\ k.at > Len(JobQueue(k))
                   THEN [k EXCEPT !.at = 1,
                                  !.pc = IF k.pc = "rate" THEN "stocks"
                                         ELSE IF k.pc = "stocks" THEN "funds" ELSE "upsert"]
                   ELSE k
    IN  skip(skip(skip(next)))

JobPortfolios ==
    {<<>>,
     <<StoredFund>>,
     <<StoredFundGroup>>,
     <<[StoredFund EXCEPT !.finnomenaCode = "F2"],
       [StoredGroup EXCEPT !.id = 2, !.subAssets = <<StoredStock, BatchThbStock>>]>>,
     <<StoredMixedGroup, [StoredFund EXCEPT !.id = 2]>>}

JobInit ==
    /\ supabase = TRUE
    /\ priceCache \in {EmptyCache, FullCache}
    /\ dbPortfolio \in {Some(as) : as \in JobPortfolios}
    /\ dbTransactions = <<>>
    /\ loadStatus = "loading"
    /\ assets = <<>>
    /\ transactions = <<>>
    /\ usdThbRate = None
    /\ saveStatus = None
    /\ cacheFetch = None
    /\ pending = {}
    /\ ops = 0
    /\ settings = DEFAULT_SETTINGS
    /\ now = 0
    /\ saveTimer = None
    /\ saveCalls = <<>>
    /\ upserts = {}
    /\ batch = None
    /\ job = [pc |-> "discover", at |-> 1, yahooSymbols |-> <<>>, fundsSet |-> <<>>,
              rows |-> <<>>, errors |-> <<>>, inFlight |-> {}, asked |-> <<>>,
              exit |-> None, failedStep |-> None]

\* const { yahooSymbols, fundsSet } = await discoverSymbols(); an error of
\* sbGet is not caught in main()
JobDiscovers ==
    /\ job # None /\ job.pc = "discover"
    /\ \E ok \in BOOLEAN :
          job' = IF ok
                 THEN LET d == discoverSymbols(dbPortfolio[1])
                      IN  [job EXCEPT !.yahooSymbols = d.yahooSymbols,
                                      !.fundsSet = d.fundsSet, !.pc = "rate"]
                 ELSE [job EXCEPT !.pc = "exit", !.exit = Some(1),
                                  !.failedStep = Some("discoverSymbols")]
    /\ UNCHANGED <<appVars, upserts, batch>>

\* the next request is sent: fetchUSDTHBRate, fetchYahooPrice, fetchFinnomenaNAV
JobAsks ==
    /\ job # None /\ job.pc \in {"rate", "stocks", "funds"}
    /\ job.inFlight = {}
    /\ job' = [job EXCEPT !.inFlight = {JobQueue(job)[job.at]}]
    /\ UNCHANGED <<appVars, upserts, batch>>

\* the request in flight returns or throws; then sleep(300) and the next turn
JobSettles ==
    /\ job # None /\ job.inFlight # {}
    /\ LET symbol == JobQueue(job)[job.at]
           quotes == IF job.pc = "rate" THEN {Found(YahooLiveRate, "THB"), Throws}
                     ELSE IF job.pc = "stocks"
                     THEN {Found(FetchedUsdPrice, "USD"), Found(FetchedThbPrice, "THB"), Throws}
                     ELSE {Found(JobFetchedNav, "THB"), Throws}
       IN  \E quote \in quotes :
              LET type == IF job.pc = "rate" THEN "fx"
                          ELSE IF job.pc = "funds" THEN "fund"
                          ELSE job.yahooSymbols[job.at].type
                  price == IF job.pc = "stocks" THEN jobThbPrice(job.rows, quote)
                           ELSE quote.price
                  row == [symbol |-> symbol, type |-> type, price |-> price,
                          currency |-> "THB", updated_at |-> Some(now)]
                  asked == [job EXCEPT !.asked = Append(@, [symbol |-> symbol, quote |-> quote])]
              IN  job' = JobAdvance(IF quote.status = "found"
                                    THEN [asked EXCEPT !.rows = Append(@, row)]
                                    ELSE noteError(asked, symbol))
    /\ UNCHANGED <<appVars, upserts, batch>>

\* if (rows.length > 0) await sbUpsert('price_cache', rows); an error of
\* sbUpsert is not caught in main() and ends in process.exit(1)
JobUpserts ==
    /\ job # None /\ job.pc = "upsert"
    /\ \E ok \in BOOLEAN :
          LET written == {job.rows[i].symbol : i \in 1..Len(job.rows)}
              rowOf(s) == job.rows[CHOOSE i \in 1..Len(job.rows) : job.rows[i].symbol = s]
          IN  IF job.rows = <<>> \/ ok
              THEN /\ ok
                   /\ priceCache' = [s \in DOMAIN priceCache \cup written |->
                                        IF s \in written
                                        THEN StampedRow(rowOf(s).price, rowOf(s).updated_at)
                                        ELSE priceCache[s]]
                   /\ job' = [job EXCEPT !.pc = "exit", !.exit = Some(0)]
              ELSE /\ priceCache' = priceCache
                   /\ job' = [job EXCEPT !.pc = "exit", !.exit = Some(1),
                                         !.failedStep = Some("sbUpsert")]
    /\ UNCHANGED <<supabase, loadStatus, assets, transactions, usdThbRate, saveStatus,
                   cacheFetch, pending, dbPortfolio, dbTransactions, ops, settings, now,
                   saveTimer, saveCalls, upserts, batch>>

JobNext == JobDiscovers \/ JobAsks \/ JobSettles \/ JobUpserts

JobSpec == JobInit /\ [][JobNext]_vars

\* what main() had to look up: USDTHB=X and every symbol and code discovered
JobTargets ==
    LET d == discoverSymbols(dbPortfolio[1])
    IN  {RateSymbol} \cup {d.yahooSymbols[i].symbol : i \in 1..Len(d.yahooSymbols)}
                    \cup {d.fundsSet[i] : i \in 1..Len(d.fundsSet)}

JobAsked == {job.asked[i].symbol : i \in 1..Len(job.asked)}

JobFetched == {job.asked[i].symbol :
                  i \in {k \in 1..Len(job.asked) : job.asked[k].quote.status = "found"}}

C25_RowsHoldThbPrices ==
    job # None =>
        \A i \in 1..Len(job.rows) :
            LET row == job.rows[i]
                quote == job.asked[CHOOSE k \in 1..Len(job.asked) :
                                      job.asked[k].symbol = row.symbol].quote
            IN  /\ row.currency = "THB"
                /\ IF row.symbol = RateSymbol THEN row.price = quote.price
                   ELSE IF quote.currency = "USD"
                   THEN \E rate \in {YahooLiveRate, YahooFallbackRate} :
                           row.price = ToThb(quote.price, rate)
                   ELSE row.price = quote.price

\* ---------------------------------------------------------------------------
\* Load, debounced save and the upserts of savePortfolio in flight.

\* what load() gets from loadPortfolio: the stored document, null after a
\* store error (if (error || !data) return null), or an exception
LoadReads == IF supabase THEN {"data", "error", "throws"} ELSE {"data", "throws"}

\* load() and the effects of the render after it
LoadPortfolio ==
    /\ loadStatus = "loading"
    /\ \E read \in LoadReads :
          IF read = "throws"
          THEN /\ loadStatus' = "error"
               /\ UNCHANGED <<assets, transactions, saveStatus, saveTimer>>
          ELSE LET data == IF read = "data" THEN dbPortfolio ELSE None
               IN  /\ assets' = IF data # None THEN data[1] ELSE assets
                   /\ transactions' = IF supabase THEN dbTransactions ELSE <<>>
                   /\ loadStatus' = "ready"
                   /\ saveStatus' = Some("saving")
                   /\ saveTimer' = DebouncedSave(assets', settings)
    /\ UNCHANGED <<procVars, settings, now, saveCalls, supabase, usdThbRate, priceCache,
                   cacheFetch, pending, dbPortfolio, dbTransactions, ops>>

\* the timer callback calls savePortfolio: without a Supabase client the
\* document is written at once, with one the upsert is sent
SavePortfolioCalled ==
    /\ saveTimer # None
    /\ saveTimer[1].left = 0
    /\ saveCalls' = Append(saveCalls, [assets |-> saveTimer[1].assets,
                                       settings |-> saveTimer[1].settings])
    /\ IF supabase
       THEN /\ upserts' = upserts \cup {[n |-> Len(saveCalls) + 1,
                                         assets |-> saveTimer[1].assets,
                                         settings |-> saveTimer[1].settings,
                                         status |-> "inFlight"]}
            /\ UNCHANGED <<dbPortfolio, saveStatus>>
       ELSE /\ dbPortfolio' = Some(saveTimer[1].assets)
            /\ saveStatus' = Some("saved")
            /\ upserts' = upserts
    /\ saveTimer' = None
    /\ UNCHANGED <<batch, job, settings, now, supabase, loadStatus, assets, transactions,
                   usdThbRate, priceCache, cacheFetch, pending, dbTransactions, ops>>

\* an upsert in flight is applied by the store or fails; then
\* setSaveStatus(ok ? "saved" : "error")
UpsertCompletes ==
    \E u \in upserts, ok \in BOOLEAN :
        /\ u.status = "inFlight"
        /\ upserts' = (upserts \ {u}) \cup {[u EXCEPT !.status = IF ok THEN "ok" ELSE "error"]}
        /\ dbPortfolio' = IF ok THEN Some(u.assets) ELSE dbPortfolio
        /\ saveStatus' = Some(IF ok THEN "saved" ELSE "error")
        /\ UNCHANGED <<batch, job, settings, now, saveTimer, saveCalls, supabase, loadStatus,
                       assets, transactions, usdThbRate, priceCache, cacheFetch, pending,
                       dbTransactions, ops>>

StoreInit ==
    /\ supabase \in BOOLEAN
    /\ priceCache = EmptyCache
    /\ dbPortfolio \in {Some(d) : d \in {<<StoredFund>>,
                                         <<StoredFund, [LegacyAsset EXCEPT !.id = 2]>>}}
    /\ dbTransactions = <<>>
    /\ loadStatus = "loading"
    /\ assets = <<>>
    /\ transactions = <<>>
    /\ usdThbRate = None
    /\ saveStatus = None
    /\ cacheFetch = None
    /\ pending = {}
    /\ ops = 0
    /\ settings = DEFAULT_SETTINGS
    /\ now = 0
    /\ saveTimer = None
    /\ saveCalls = <<>>
    /\ upserts = {}
    /\ batch = None
    /\ job = None

StoreNext ==
    \/ LoadPortfolio
    \/ EditAssets
    \/ TimePasses
    \/ SavePortfolioCalled
    \/ UpsertCompletes
    \/ StatusTimeout

StoreSpec == StoreInit /\ [][StoreNext]_vars

\* C26: a failed read of the stored portfolio never leads to its being
\* overwritten: loadStatus becomes ready only with the stored assets in
\* memory, and before any edit a call of savePortfolio carries the stored
\* assets, never the default (empty) ones, and leaves the stored document as
\* it was.
C26_FailedLoadNeverOverwrites ==
    [][/\ (loadStatus = "loading" /\ loadStatus' = "ready" /\ dbPortfolio # None)
            => assets' = dbPortfolio[1]
       /\ (ops' = 0 /\ dbPortfolio # None /\ Len(saveCalls') > Len(saveCalls))
            => saveCalls'[Len(saveCalls')].assets = dbPortfolio[1]
       /\ ops' = 0 => dbPortfolio' = dbPortfolio]_vars

\* C27: last write wins at the store: when no write is pending and every
\* call of savePortfolio has completed without an error, in whatever order
\* the upserts completed, the stored portfolio is the one in memory.
C27_LastWriteWins ==
    (/\ loadStatus = "ready"
     /\ saveTimer = None
     /\ saveCalls # <<>>
     /\ \A u \in upserts : u.status = "ok")
        => dbPortfolio = Some(assets)

\* ---------------------------------------------------------------------------
\* The ledger in memory and the ledger in the store.

TxIds(txs) == {txs[i].id : i \in 1..Len(txs)}

\* C29: saveTransaction reports success only for a transaction that was
\* appended: after a call the status is "saved" only if the ledger in memory
\* has one transaction more, and a call whose insert failed leaves the ledger
\* as it was and sets the status "error".
C29_SavedOnlyIfAppended ==
    [][SaveTransaction =>
          /\ saveStatus' = Some("saved") => Len(transactions') = Len(transactions) + 1
          /\ transactions' = transactions => saveStatus' = Some("error")]_vars

\* C30: with a configured store, a transaction leaves the ledger in memory
\* only if it left the stored ledger, every other entry stays, and a delete
\* that failed leaves the ledger in memory as it was with the status "error".
C30_RemovedOnlyIfDeleted ==
    [][(supabase /\ loadStatus = "ready" /\ loadStatus' = "ready") =>
          /\ \A id \in TxIds(transactions) \ TxIds(transactions') :
                id \notin TxIds(dbTransactions')
          /\ (DeleteTx /\ dbTransactions' = dbTransactions)
                => (transactions' = transactions /\ saveStatus' = Some("error"))]_vars

\* ---------------------------------------------------------------------------
\* Editing an asset that has transactions.

HasBuy(txs, assetId, subId) ==
    \E i \in 1..Len(txs) : /\ txs[i].type = "buy"
                           /\ txs[i].asset_id = assetId
                           /\ subId # None => txs[i].sub_asset_id = subId

\* the manual cost and quantity of a stored asset or sub-asset
ManualFields(x, quantity) ==
    <<x.invested, NumOr0(x.investedUSD), NumOr0(quantity)>>

\* C28: while the portfolio is shown, no handler changes the stored
\* invested, investedUSD and units of an asset that has a buy transaction,
\* nor the stored invested, investedUSD and qty of a sub-asset that has one:
\* a save of the edit form writes back the stored values, never the values
\* derived from the ledger or rolled up from the sub-assets.
C28_EditKeepsManualValues ==
    [][(loadStatus = "ready" /\ loadStatus' = "ready") =>
          \A i \in 1..Len(assets), k \in 1..Len(assets') :
             assets[i].id = assets'[k].id =>
                /\ HasBuy(transactions, assets[i].id, None)
                      => ManualFields(assets'[k], assets'[k].units)
                            = ManualFields(assets[i], assets[i].units)
                /\ \A m \in 1..Len(assets[i].subAssets), n \in 1..Len(assets'[k].subAssets) :
                      LET old == assets[i].subAssets[m]
                          new == assets'[k].subAssets[n]
                      IN  (old.id = new.id /\ HasBuy(transactions, assets[i].id, Some(old.id)))
                             => ManualFields(new, new.qty) = ManualFields(old, old.qty)]_vars

====
